---- MODULE Spec2Model ----
(***************************************************************************)
(* State-machine model of smart_rag: the SGR tool-calling agent loop, the  *)
(* single-shot LLM call, the per-document add/remove of the RAG service    *)
(* and the embedding clients (GigaChat with OAuth2 token, Ollama).         *)
(***************************************************************************)
EXTENDS Integers, Sequences, FiniteSets, TLC

(***************************************************************************)
(* Bounds of the model.                                                    *)
(***************************************************************************)
MaxIterations == 3      \* execution.max_iterations is drawn from 1..MaxIterations
MaxRetries == 3         \* execution.max_retries is drawn from 0..MaxRetries
MaxFiles == 2           \* files attached to one document
MaxRequests == 2        \* rag/manage requests in one behaviour
MaxChanges == 1         \* new file versions of a document in one behaviour
MaxTexts == 3           \* texts handed to one embedding call
MaxBatchSize == 2       \* batch_size of an embedding client is drawn from 1..MaxBatchSize
MaxEmbRetries == 3      \* max_retries of an embedding client is drawn from 0..MaxEmbRetries
MaxCallTexts == 2       \* texts of a call where the two embedding paths are compared or the token ages
MaxCallRetries == 2     \* max_retries of the client there is drawn from 0..MaxCallRetries
MaxRetryCount == 3      \* request.max_retry_count is drawn from -1..MaxRetryCount
MaxLegLen == 2          \* points returned by one search leg
MaxTopK == 3            \* top_k of a retrieve call is drawn from 1..MaxTopK
MaxGetCalls == 3        \* get_client calls in one behaviour
MaxClears == 1          \* clear_cache calls in one behaviour
MaxEmbedCalls == 2      \* requests that ask for an embedding client in one behaviour
MaxChunks == 2          \* chunks the chunker makes of one file

NoneVal == "None"       \* Python's None

VARIABLES
    \* ---- agent execution (AgentContext, BaseAgent, LLMService.agent_call)
    max_iterations,     \* config.execution.max_iterations
    max_retries,        \* config.execution.max_retries
    toolkit,            \* tool names of the agent's toolkit
    search_api_key,     \* request.search_api_key given
    state,              \* _context.state
    iteration,          \* _context.iteration
    execution_result,   \* _context.execution_result
    conversation,       \* self.conversation
    agent_pc,           \* position inside agent_call / execute
    attempt,            \* loop variable of the running phase
    action_tool,        \* tool returned by _select_action_phase
    llm_calls,          \* chat.completions.stream calls of this execution
    phase_calls,        \* stream calls made by the running phase
    phase_error,        \* local last_error of the running phase
    last_tool,          \* last tool invoked by _action_phase
    raised,             \* cause of the exception caught by execute
    agent_response      \* dict returned by agent_call (its code, or "content")

agentVars == <<max_iterations, max_retries, toolkit, search_api_key, state,
               iteration, execution_result, conversation, agent_pc, attempt,
               action_tool, llm_calls, phase_calls, phase_error, last_tool,
               raised, agent_response>>

VARIABLES
    \* ---- RAG service (RAGService.add_files_to_rag / remove_files_from_rag)
    store,              \* the collection: number of points per (irv_id, irvf_id, writing request)
    docfiles,           \* platform: the files attached to each document
    rq,                 \* per worker: the request it is serving and its locals
    nreq,               \* requests started so far
    hist,               \* the last two finished requests, in order of completion
    nchanges,           \* file-list changes so far
    active              \* workers that serve requests

ragVars == <<store, docfiles, rq, nreq, hist, nchanges, active>>

VARIABLES
    \* ---- embedding clients (GigaEmbedding, OllamaEmbedding)
    provider,           \* "giga" or "ollama": the class of the client
    emb_max_retries,    \* self.max_retries
    batch_size,         \* self.batch_size
    texts,              \* the argument of _get_text_embeddings
    access_token,       \* GigaEmbedding: a token is held
    token_obtained_at,  \* GigaEmbedding: None, or the age class of the token
    emb_pc,             \* position inside _get_text_embeddings
    batch_start,        \* loop variable i of _get_text_embeddings
    emb_attempt,        \* loop variable attempt of _get_batch_embeddings
    single_attempt,     \* parameter attempt of the running _get_single_embedding
    embeddings,         \* local list of _get_batch_embeddings
    all_embeddings,     \* local list of _get_text_embeddings
    emb_result,         \* the list returned, or the error raised
    token_calls,        \* requests sent to the OAuth2 token endpoint
    refresh_calls,      \* those of them sent while handling a 401
    embed_requests,     \* requests sent to the embeddings endpoint
    only_401,           \* every embeddings request so far was answered 401
    exchange,           \* how the endpoints have answered this call so far
    emb_path,           \* "sync" (_get_text_embeddings) or "async" (_aget_text_embeddings)
    tasks,              \* async path: the coroutines handed to asyncio.gather
    failed_texts,       \* texts whose request was answered 4xx (not 401) or malformed
    resent,             \* a request was sent for a text of failed_texts
    sent_stale          \* a request was sent with a cached token aged 30 minutes or more

embVars == <<provider, emb_max_retries, batch_size, texts, access_token,
             token_obtained_at, emb_pc, batch_start, emb_attempt,
             single_attempt, embeddings, all_embeddings, emb_result,
             token_calls, refresh_calls, embed_requests, only_401,
             exchange, emb_path, tasks, failed_texts, resent,
             sent_stale>>

VARIABLES
    \* ---- single-shot call (LLMService.generate_response)
    request,            \* the LLMRequest: max_retry_count, messages
    gen_pc,             \* position inside generate_response
    gen_attempt,        \* loop variable attempt
    gen_requests,       \* chat.completions.create calls of this call
    last_response,      \* what the last create call gave
    last_error,         \* local last_error
    gen_result          \* dict returned: its code, or "content"

genVars == <<request, gen_pc, gen_attempt, gen_requests, last_response,
             last_error, gen_result>>

VARIABLES
    \* ---- retrieval (DocumentRetriever.retrieve, ChatCompletionsReranker)
    top_k,                  \* retrieve's top_k
    hybrid_search_enabled,  \* self.hybrid_search_enabled
    reranker,               \* self.reranker is set
    search_pc,              \* position inside retrieve
    vector_results,         \* what _vector_search returned
    text_results,           \* what _text_search returned
    merged_results,         \* results before reranking
    scores,                 \* what _get_rerank_scores gave
    results                 \* list returned by retrieve

searchVars == <<top_k, hybrid_search_enabled, reranker, search_pc,
                vector_results, text_results, merged_results, scores,
                results>>

VARIABLES
    \* ---- client cache (ConfigCache)
    client_cache,       \* self._cache: cache key -> client
    client_configs,     \* self._configs: cache key -> config
    clients_created,    \* OpenAI(...) constructions so far
    clears,             \* clear_cache calls so far
    client_calls,       \* the get_client calls so far: config, client, clears
    embedding_cache,    \* RAGService._embedding_cache and RAGTool._embedding_cache: (class, cache key) -> client
    embedding_calls     \* the embedding clients handed out so far: request, credentials of the client

cacheVars == <<client_cache, client_configs, clients_created, clears,
               client_calls, embedding_cache, embedding_calls>>


VARIABLES
    \* ---- HTTP API (api/main.py, api/routes/llm_routes.py, api/chat_history.py)
    siu,                \* the platform: object versions, their chat_history.json
    endpoint,           \* the route the HTTP request is for
    valid_body,         \* the request body passes FastAPI's validation
    assistant_request,  \* the AssistantRequest of a generate call
    route_pc,           \* position inside the request
    context,            \* context: chat_messages, chat_history_irv_exists
    llm_call,           \* which LLMService call the route made, with which tools
    llm_response,       \* what simple_llm_call / agent_call returned
    full_messages,      \* the transcript handed to save_chat_history
    chat_history_result, \* what save_chat_history did: descriptor, None, raised, and which platform call failed
    failure,            \* what made the request fail, None if nothing
    inner_response,     \* the response before the errors_to_200 middleware
    http_response,      \* the response the client gets
    chats               \* per worker: a generate call that continues a saved dialog

routeVars == <<siu, endpoint, valid_body, assistant_request, route_pc, context,
               llm_call, llm_response, full_messages, chat_history_result,
               failure, inner_response, http_response, chats>>


VARIABLES
    \* ---- point payloads (RAGService._process_file, _create_nodes_from_chunks)
    file_request,       \* irv_id, irvf_id and file_name of the file processed
    irv_info,           \* what get_irv gave for the document
    chunker_result,     \* the chunks the chunker made of the file
    index_pc,           \* position inside _process_file
    nodes,              \* the text nodes made of the chunks
    all_points,         \* local all_points: the points of the embedded portions
    node_batch_size,    \* local batch_size: the embedder's batch_size
    node_start,         \* loop variable i of the loop over the portions
    upserted,           \* the points of the file in the collection
    file_result         \* the status _process_file returns

payloadVars == <<file_request, irv_info, chunker_result, index_pc, nodes,
                 all_points, node_batch_size, node_start, upserted,
                 file_result>>


vars == <<agentVars, ragVars, embVars, genVars, searchVars, cacheVars, routeVars, payloadVars>>

\* what the operations of one component leave alone
notAgent == <<ragVars, embVars, genVars, searchVars, cacheVars, routeVars, payloadVars>>
notRag == <<agentVars, embVars, genVars, searchVars, cacheVars, routeVars, payloadVars>>
notEmb == <<agentVars, ragVars, genVars, searchVars, cacheVars, routeVars, payloadVars>>
notGen == <<agentVars, ragVars, embVars, searchVars, cacheVars, routeVars, payloadVars>>
notSearch == <<agentVars, ragVars, embVars, genVars, cacheVars, routeVars, payloadVars>>
notCache == <<agentVars, ragVars, embVars, genVars, searchVars, routeVars, payloadVars>>
notRoute == <<agentVars, ragVars, embVars, genVars, searchVars, cacheVars, payloadVars>>
notPayload == <<agentVars, ragVars, embVars, genVars, searchVars, cacheVars, routeVars>>

(***************************************************************************)
(* Agent: data                                                             *)
(***************************************************************************)
AgentStates == {"researching", "waiting_for_clarification", "completed", "failed"}
FINISH_STATES == {"completed", "failed"}

ToolNames == {"reasoningtool", "finalanswertool", "websearchtool", "ragtool"}

\* create_agent_definition_from_request: the toolkit for the request flags
ToolsFor(internet, knowledge_base) ==
    (IF internet THEN {"websearchtool"} ELSE {})
        \cup (IF knowledge_base THEN {"ragtool"} ELSE {})
        \cup {"finalanswertool", "reasoningtool"}

\* errors of the LLM provider that a phase does not retry
NonRetryable == {"AuthenticationError", "RateLimitError", "BadRequestError"}
\* errors a phase retries while attempts remain
Retryable == {"APIConnectionError", "APITimeoutError", "OpenAIError", "Exception"}

\* an id that does not tell the phases of an iteration apart
ToolCallId_NoKind(it, kind) == <<it, "call">>

\* f"{iteration}-reasoning", f"{iteration}-action"
ToolCallId(it, kind) == <<it, kind>>
AssistantEntry(it, kind) == [role |-> "assistant", id |-> ToolCallId(it, kind)]
ToolEntry(it, kind) == [role |-> "tool", id |-> ToolCallId(it, kind)]

(***************************************************************************)
(* Agent: operations                                                       *)
(***************************************************************************)
\* the configuration of a running agent is fixed; the agent touches nothing else
AgentUnchangedCfg ==
    UNCHANGED <<max_iterations, max_retries, toolkit, search_api_key, notAgent>>

\* an except branch that logs the exception and leaves the state alone
ExecuteExcept_StateKept(cause) ==
    /\ state' = state
    /\ raised' = cause
    /\ agent_pc' = "finished"

\* BaseAgent.execute, except branch: the exception is logged and swallowed,
\* the state becomes FAILED, then the finally block runs
ExecuteExcept(cause) ==
    /\ state' = "failed"
    /\ raised' = cause
    /\ agent_pc' = "finished"

\* LLMService.agent_call up to agent.execute(): the definition and the agent
\* are created; a missing search_api_key raises ValueError
AgentCallCreate ==
    /\ agent_pc = "agent_call"
    /\ IF "websearchtool" \in toolkit /\ ~search_api_key
         THEN /\ agent_response' = "agent_creation_error"
              /\ agent_pc' = "returned"
         ELSE /\ agent_pc' = "execute"
              /\ UNCHANGED agent_response
    /\ UNCHANGED <<state, iteration, execution_result, conversation, attempt,
                   action_tool, llm_calls, phase_calls, phase_error, last_tool,
                   raised>>
    /\ AgentUnchangedCfg

\* a loop test that leaves the loop on failure only
LoopContinues_OnlyFailedEnds == state # "failed"

\* BaseAgent.execute: the condition of the while loop
LoopContinues == state \notin FINISH_STATES

\* BaseAgent.execute: the test of the while loop and the increment
ExecuteLoop ==
    /\ agent_pc = "execute"
    /\ IF LoopContinues
         THEN /\ iteration' = iteration + 1
              /\ agent_pc' = "reasoning"
         ELSE /\ agent_pc' = "finished"
              /\ UNCHANGED iteration
    /\ attempt' = 0
    /\ phase_calls' = 0
    /\ phase_error' = NoneVal
    /\ UNCHANGED <<state, execution_result, conversation, action_tool,
                   llm_calls, last_tool, raised, agent_response>>
    /\ AgentUnchangedCfg

\* a retry loop that allows one attempt too many
PhaseRetryOrRaise_OneMore(cause) ==
    /\ phase_error' = cause
    /\ IF attempt < max_retries
         THEN /\ attempt' = attempt + 1
              /\ UNCHANGED <<state, raised, agent_pc>>
         ELSE /\ ExecuteExcept(cause)
              /\ UNCHANGED attempt

\* a failed attempt of a phase: continue while attempts remain, else RuntimeError
PhaseRetryOrRaise(cause) ==
    /\ phase_error' = cause
    /\ IF attempt < max_retries - 1
         THEN /\ attempt' = attempt + 1
              /\ UNCHANGED <<state, raised, agent_pc>>
         ELSE /\ ExecuteExcept(cause)
              /\ UNCHANGED attempt

\* SGRToolCallingAgent._reasoning_phase with max_retries = 0: the for loop has
\* no iteration and the function raises
ReasoningNoAttempt ==
    /\ agent_pc = "reasoning"
    /\ attempt >= max_retries
    /\ ExecuteExcept("reasoning_not_run")
    /\ UNCHANGED <<iteration, execution_result, conversation, attempt,
                   action_tool, llm_calls, phase_calls, phase_error, last_tool,
                   agent_response>>
    /\ AgentUnchangedCfg

\* a reasoning phase that appends the tool call without its result
ReasoningAppends_NoResult(conv, it) ==
    Append(conv, AssistantEntry(it, "reasoning"))

\* _reasoning_phase after the completion was parsed: the assistant tool call
\* is appended, the reasoning tool is invoked (it only renders its own
\* fields), its result is appended
ReasoningAppends(conv, it) ==
    Append(Append(conv, AssistantEntry(it, "reasoning")),
           ToolEntry(it, "reasoning"))

\* SGRToolCallingAgent._reasoning_phase: one attempt of the for loop
ReasoningPhase ==
    /\ agent_pc = "reasoning"
    /\ attempt < max_retries
    /\ llm_calls' = llm_calls + 1
    /\ \E outcome \in {"ok"} \cup NonRetryable \cup Retryable :
         CASE outcome = "ok" ->
                \* the phase returns, the next phase starts
                /\ conversation' = ReasoningAppends(conversation, iteration)
                /\ agent_pc' = "select"
                /\ attempt' = 0
                /\ phase_calls' = 0
                /\ phase_error' = NoneVal
                /\ UNCHANGED <<state, raised>>
           [] outcome \in NonRetryable ->
                /\ ExecuteExcept(outcome)
                /\ phase_calls' = phase_calls + 1
                /\ UNCHANGED <<conversation, attempt, phase_error>>
           [] OTHER ->
                /\ PhaseRetryOrRaise(outcome)
                /\ phase_calls' = phase_calls + 1
                /\ UNCHANGED conversation
    /\ UNCHANGED <<iteration, execution_result, action_tool, last_tool,
                   agent_response>>
    /\ AgentUnchangedCfg

\* a cap test that is off by one
PrepareToolsRaises_OffByOne == iteration > max_iterations

\* BaseAgent._prepare_tools: raises RuntimeError("Max iterations reached")
PrepareToolsRaises == iteration >= max_iterations

\* SGRToolCallingAgent._select_action_phase, an attempt in which
\* _prepare_tools raises: no request is sent, the RuntimeError is caught by
\* "except Exception" and handled as any unexpected error
SelectActionCap ==
    /\ agent_pc = "select"
    /\ attempt < max_retries
    /\ PrepareToolsRaises
    /\ PhaseRetryOrRaise("Max iterations reached")
    /\ UNCHANGED <<iteration, execution_result, conversation, action_tool,
                   llm_calls, phase_calls, last_tool, agent_response>>
    /\ AgentUnchangedCfg

\* SGRToolCallingAgent._select_action_phase: one attempt of the for loop
SelectActionPhase ==
    /\ agent_pc = "select"
    /\ attempt < max_retries
    /\ ~PrepareToolsRaises
    /\ llm_calls' = llm_calls + 1
    /\ phase_calls' = phase_calls + 1
    /\ \E outcome \in toolkit \cup {"no_tool_call", "not_base_tool"}
                        \cup NonRetryable \cup Retryable :
         CASE outcome \in toolkit ->
                /\ conversation' = Append(conversation,
                                          AssistantEntry(iteration, "action"))
                /\ action_tool' = outcome
                /\ agent_pc' = "action"
                /\ UNCHANGED <<state, raised, attempt, phase_error>>
           [] outcome \in NonRetryable ->
                /\ ExecuteExcept(outcome)
                /\ UNCHANGED <<conversation, attempt, action_tool, phase_error>>
           [] OTHER ->
                \* ValueError (no tool call, not a BaseTool) and the
                \* retryable provider errors
                /\ PhaseRetryOrRaise(outcome)
                /\ UNCHANGED <<conversation, action_tool>>
    /\ UNCHANGED <<iteration, execution_result, last_tool, agent_response>>
    /\ AgentUnchangedCfg

\* FinalAnswerTool.__call__: the terminal tool
FinalAnswerToolCall ==
    /\ state' = "completed"
    /\ execution_result' = "answer"

\* the tools that may raise: the web search calls the provider unguarded
ToolMayRaise(tool) == tool = "websearchtool"

\* SGRToolCallingAgent._action_phase: the tool is invoked, its result is
\* appended to the conversation
ActionPhase ==
    /\ agent_pc = "action"
    /\ last_tool' = action_tool
    /\ \E ok \in BOOLEAN :
         IF ok \/ ~ToolMayRaise(action_tool)
           THEN /\ IF action_tool = "finalanswertool"
                     THEN FinalAnswerToolCall
                     ELSE UNCHANGED <<state, execution_result>>
                /\ conversation' = Append(conversation,
                                          ToolEntry(iteration, "action"))
                /\ agent_pc' = "execute"
                /\ UNCHANGED raised
           ELSE /\ ExecuteExcept("tool_error")
                /\ UNCHANGED <<execution_result, conversation>>
    /\ UNCHANGED <<iteration, attempt, action_tool, llm_calls, phase_calls,
                   phase_error, agent_response>>
    /\ AgentUnchangedCfg

\* LLMService.agent_call after agent.execute(): the result by agent state
AgentCallReturn ==
    /\ agent_pc = "finished"
    /\ agent_response' =
          CASE state = "completed" -> "content"
            [] state = "failed" -> "agent_failed"
            [] OTHER -> "agent_incomplete"
    /\ agent_pc' = "returned"
    /\ UNCHANGED <<state, iteration, execution_result, conversation, attempt,
                   action_tool, llm_calls, phase_calls, phase_error, last_tool,
                   raised>>
    /\ AgentUnchangedCfg


(***************************************************************************)
(* RAG service: data                                                       *)
(***************************************************************************)
ScrollLimit == 10000            \* limit= of the scroll before a delete
DeleteBatchSize == 1000         \* batch_size of the delete loop
supported_extensions == {".docx", ".txt", ".md"}

Docs == {"X", "Y"}
Procs == {1, 2}
Extensions == {".txt", ".pdf"}
ChunkChoices == {0, 1, 10001}   \* text chunks the chunker yields for a file

FileKinds == {[ext |-> e, chunks |-> c] : e \in Extensions \cap supported_extensions,
                                          c \in ChunkChoices}
                \cup {[ext |-> e, chunks |-> 0] : e \in Extensions \ supported_extensions}
FileLists == UNION {[1..n -> FileKinds] : n \in 0..MaxFiles}

\* the documents on the platform when the service starts: X is any document,
\* Y has one text file
InitialFiles == {[d \in Docs |-> IF d = "X" THEN fl
                                 ELSE <<[ext |-> ".txt", chunks |-> 1]>>] :
                    fl \in FileLists}

Keys == Docs \X (1..MaxFiles) \X (1..MaxRequests)
Min(a, b) == IF a < b THEN a ELSE b

RECURSIVE SumOver(_, _)
SumOver(S, f) == IF S = {} THEN 0
                 ELSE LET k == CHOOSE x \in S : TRUE
                      IN f[k] + SumOver(S \ {k}, f)

\* the points whose payload irv_id is d
KeysOf(d) == {k \in Keys : k[1] = d}
PointsOf(st, d) == SumOver(KeysOf(d), st)
\* the points of d that were not written by request op
StaleOf(st, d, op) == SumOver({k \in KeysOf(d) : k[3] # op}, st)

\* RAGService._get_files_to_process: the files with a supported extension
FilesToProcess(fl) ==
    LET F[i \in 0..Len(fl)] ==
          IF i = 0 THEN <<>>
          ELSE IF fl[i].ext \in supported_extensions
                 THEN Append(F[i - 1], [irvf_id |-> i, chunks |-> fl[i].chunks])
                 ELSE F[i - 1]
    IN F[Len(fl)]

RECURSIVE SumChunks(_)
SumChunks(files) == IF files = <<>> THEN 0
                    ELSE Head(files).chunks + SumChunks(Tail(files))

Perms(S) == {f \in [1..Cardinality(S) -> S] :
                \A i, j \in 1..Cardinality(S) : f[i] = f[j] => i = j}

\* client.scroll(scroll_filter = irv_id, limit): at most `limit` points of the
\* document, taken in the order in which the store returns them
RECURSIVE ScrollPage(_, _, _)
ScrollPage(order, st, limit) ==
    IF order = <<>> \/ limit = 0 THEN <<>>
    ELSE LET k == Head(order)
             n == Min(st[k], limit)
         IN <<[key |-> k, n |-> n]>> \o ScrollPage(Tail(order), st, limit - n)

ScrollResults(st, d, limit) ==
    {ScrollPage(order, st, limit) : order \in Perms({k \in KeysOf(d) : st[k] > 0})}

RECURSIVE PageSize(_)
PageSize(page) == IF page = <<>> THEN 0 ELSE Head(page).n + PageSize(Tail(page))

\* points_to_delete[i:i + batch_size] is deleted: the store afterwards
RECURSIVE DeleteFirst(_, _, _)
DeleteFirst(st, page, n) ==
    IF page = <<>> \/ n = 0 THEN st
    ELSE LET h == Head(page)
             m == Min(h.n, n)
         IN DeleteFirst([st EXCEPT ![h.key] = @ - Min(@, m)], Tail(page), n - m)

\* points_to_delete without its first n ids
RECURSIVE DropFirst(_, _)
DropFirst(page, n) ==
    IF page = <<>> \/ n = 0 THEN page
    ELSE LET h == Head(page)
         IN IF h.n <= n THEN DropFirst(Tail(page), n - h.n)
            ELSE <<[key |-> h.key, n |-> h.n - n]>> \o Tail(page)

IdleRq == [pc |-> "idle", action |-> NoneVal, irv_id |-> NoneVal, op |-> 0,
           files |-> <<>>, fidx |-> 0, points_to_delete |-> <<>>,
           deleted_count |-> 0, errors |-> {}, total_chunks |-> 0]

LastTwo(h) == IF Len(h) > 2 THEN Tail(h) ELSE h

\* a request is answered: its outcome is recorded, with whether another
\* request was being served at that moment
Finished(p, r, status, st) ==
    /\ hist' = LastTwo(Append(hist,
                 [action |-> r.action, irv_id |-> r.irv_id, op |-> r.op,
                  status |-> status,
                  files |-> r.files,
                  chunks_saved |-> r.total_chunks,
                  chunks_deleted |-> r.deleted_count,
                  errors |-> r.errors,
                  concurrent |-> \E q \in Procs \ {p} : rq[q].pc # "idle",
                  count_after |-> PointsOf(st, r.irv_id),
                  stale_after |-> StaleOf(st, r.irv_id, r.op)]))
    /\ rq' = [rq EXCEPT ![p] = IdleRq]

(***************************************************************************)
(* RAG service: operations                                                 *)
(***************************************************************************)
\* add_files_to_rag up to the deletion of the old chunks: the document and
\* its files are read from the platform; with no supported file the call
\* returns at once; else the chunker, the embedding and the store are set up
AddFilesStart(p, d) ==
    /\ p \in active
    /\ rq[p].pc = "idle"
    /\ nreq < MaxRequests
    /\ nreq' = nreq + 1
    /\ \E platform_ok \in BOOLEAN, init_ok \in BOOLEAN :
         LET r == [IdleRq EXCEPT !.action = "add", !.irv_id = d,
                                 !.op = nreq + 1,
                                 !.files = FilesToProcess(docfiles[d]),
                                 !.fidx = 1]
         IN IF ~platform_ok
              THEN Finished(p, [r EXCEPT !.files = <<>>], "error", store)
              ELSE IF r.files = <<>>
                     THEN Finished(p, r, "success", store)
                     ELSE IF ~init_ok
                            THEN Finished(p, r, "error", store)
                            ELSE /\ rq' = [rq EXCEPT ![p] = [r EXCEPT !.pc = "scroll"]]
                                 /\ UNCHANGED hist
    /\ UNCHANGED <<store, docfiles, nchanges, active, notRag>>

\* remove_files_from_rag up to the scroll: the store manager is created
RemoveFilesStart(p, d) ==
    /\ p \in active
    /\ rq[p].pc = "idle"
    /\ nreq < MaxRequests
    /\ nreq' = nreq + 1
    /\ \E init_ok \in BOOLEAN :
         LET r == [IdleRq EXCEPT !.action = "remove", !.irv_id = d,
                                 !.op = nreq + 1]
         IN IF ~init_ok
              THEN Finished(p, r, "error", store)
              ELSE /\ rq' = [rq EXCEPT ![p] = [r EXCEPT !.pc = "scroll"]]
                   /\ UNCHANGED hist
    /\ UNCHANGED <<store, docfiles, nchanges, active, notRag>>

\* where a request goes on after its old points are deleted
AfterDelete(p, r) ==
    IF r.action = "add"
      THEN /\ rq' = [rq EXCEPT ![p] = [r EXCEPT !.pc = "files"]]
           /\ UNCHANGED hist
      ELSE Finished(p, r, "success", store')

\* _delete_chunks_by_irv_id / remove_files_from_rag: the scroll that collects
\* points_to_delete; a failed scroll raises ServiceError
ScrollPoints(p) ==
    /\ rq[p].pc = "scroll"
    /\ UNCHANGED <<store, docfiles, nchanges, active, notRag, nreq>>
    /\ \E ok \in BOOLEAN :
         IF ~ok
           THEN Finished(p, rq[p], "error", store)
           ELSE \E page \in ScrollResults(store, rq[p].irv_id, ScrollLimit) :
                  IF page = <<>>
                    THEN AfterDelete(p, rq[p])
                    ELSE /\ rq' = [rq EXCEPT ![p].pc = "delete",
                                             ![p].points_to_delete = page]
                         /\ UNCHANGED hist

\* _delete_chunks_by_irv_id / remove_files_from_rag: one batch of the delete
\* loop; a failed delete raises ServiceError
DeleteBatch(p) ==
    /\ rq[p].pc = "delete"
    /\ UNCHANGED <<docfiles, nchanges, active, notRag, nreq>>
    /\ \E ok \in BOOLEAN :
         IF ~ok
           THEN /\ Finished(p, rq[p], "error", store)
                /\ UNCHANGED store
           ELSE LET page == rq[p].points_to_delete
                    rest == DropFirst(page, DeleteBatchSize)
                    r == [rq[p] EXCEPT
                            !.points_to_delete = rest,
                            !.deleted_count = @ + Min(PageSize(page), DeleteBatchSize)]
                IN /\ store' = DeleteFirst(store, page, DeleteBatchSize)
                   /\ IF rest = <<>>
                        THEN AfterDelete(p, r)
                        ELSE /\ rq' = [rq EXCEPT ![p] = r]
                             /\ UNCHANGED hist

\* add_files_to_rag after the loop over the files: any collected error makes
\* the call raise ServiceError rag_processing_error, naming the failed files
AddStatus_AlwaysSuccess(errors) == "success"

AddStatus(errors) ==
    IF errors # {} THEN "rag_processing_error" ELSE "success"

\* add_files_to_rag, one round of the loop over files_to_process with
\* _process_file: content, chunker, embeddings, then one upsert of the
\* file's points; after the last file the result is returned
ProcessFile(p) ==
    /\ rq[p].pc = "files"
    /\ UNCHANGED <<docfiles, nchanges, active, notRag, nreq>>
    /\ \E ok \in BOOLEAN :
         LET r0 == rq[p]
             file == r0.files[r0.fidx]
             key == <<r0.irv_id, file.irvf_id, r0.op>>
             written == ok /\ file.chunks > 0
             st == IF written THEN [store EXCEPT ![key] = @ + file.chunks]
                   ELSE store
             r == [r0 EXCEPT !.fidx = @ + 1,
                             !.errors = IF ok THEN @ ELSE @ \cup {file.irvf_id},
                             !.total_chunks = IF written THEN @ + file.chunks ELSE @]
         IN /\ store' = st
            /\ IF r.fidx > Len(r.files)
                 THEN Finished(p, r, AddStatus(r.errors), st)
                 ELSE /\ rq' = [rq EXCEPT ![p] = r]
                      /\ UNCHANGED hist

\* the platform: the files of a document are replaced by a new version
ChangeFiles(d) ==
    /\ \A p \in Procs : rq[p].pc = "idle"
    /\ hist # <<>>
    /\ nreq < MaxRequests
    /\ nchanges < MaxChanges
    /\ nchanges' = nchanges + 1
    /\ \E fl \in FileLists \ {docfiles[d]} : docfiles' = [docfiles EXCEPT ![d] = fl]
    /\ UNCHANGED <<store, rq, nreq, hist, active, notRag>>

(***************************************************************************)
(* Embedding clients: data                                                 *)
(***************************************************************************)
Providers == {"giga", "ollama"}
TextLists == {[i \in 1..n |-> i] : n \in 0..MaxTexts}
\* the vector the embeddings endpoint computes for a text
Vec(t) == <<"embedding", t>>
\* answers of the embeddings endpoint to one POST: a vector, a 200 without a
\* usable embedding field, an HTTP error status, a timeout
EmbeddingResponses == {"ok", "malformed", "401", "4xx", "5xx", "timeout"}

\* the fields of the client and of the running call that the call changes
EmbState ==
    [access_token |-> access_token, token_obtained_at |-> token_obtained_at,
     emb_pc |-> emb_pc, batch_start |-> batch_start,
     emb_attempt |-> emb_attempt, single_attempt |-> single_attempt,
     embeddings |-> embeddings, all_embeddings |-> all_embeddings,
     emb_result |-> emb_result, token_calls |-> token_calls,
     refresh_calls |-> refresh_calls, embed_requests |-> embed_requests,
     only_401 |-> only_401, exchange |-> exchange, tasks |-> tasks,
     failed_texts |-> failed_texts, resent |-> resent,
     sent_stale |-> sent_stale]

SetEmbState(e) ==
    /\ access_token' = e.access_token
    /\ token_obtained_at' = e.token_obtained_at
    /\ emb_pc' = e.emb_pc
    /\ batch_start' = e.batch_start
    /\ emb_attempt' = e.emb_attempt
    /\ single_attempt' = e.single_attempt
    /\ embeddings' = e.embeddings
    /\ all_embeddings' = e.all_embeddings
    /\ emb_result' = e.emb_result
    /\ token_calls' = e.token_calls
    /\ refresh_calls' = e.refresh_calls
    /\ embed_requests' = e.embed_requests
    /\ only_401' = e.only_401
    /\ exchange' = e.exchange
    /\ tasks' = e.tasks
    /\ failed_texts' = e.failed_texts
    /\ resent' = e.resent
    /\ sent_stale' = e.sent_stale
    /\ UNCHANGED <<provider, emb_max_retries, batch_size, texts, emb_path, notEmb>>

\* texts[i:i + batch_size]
Batch(i) == SubSeq(texts, i + 1, Min(i + batch_size, Len(texts)))

\* an exception leaves _get_text_embeddings
EmbRaise(e, exc) == [e EXCEPT !.emb_pc = "raised", !.emb_result = exc]

(***************************************************************************)
(* Embedding clients: operations                                           *)
(***************************************************************************)
\* a token cache that never looks at the age of the token
GetAccessToken_NoExpiry(e, ok, in_401_handler) ==
    IF e.access_token
      THEN e
      ELSE LET c == [e EXCEPT !.token_calls = @ + 1,
                              !.refresh_calls = IF in_401_handler THEN @ + 1 ELSE @]
           IN IF ok
                THEN [c EXCEPT !.access_token = TRUE,
                               !.token_obtained_at = "fresh",
                               !.tasks = [i \in DOMAIN @ |->
                                            [@[i] EXCEPT !.superseded = TRUE]]]
                ELSE [c EXCEPT !.emb_pc = "raised", !.emb_result = "RuntimeError",
                               !.exchange = "other"]

\* GigaEmbedding._get_access_token: the cached token while it is younger than
\* 1800 s, else a request to the token endpoint (_get_token_from_key), which
\* gives a token or raises RuntimeError
GetAccessToken(e, ok, in_401_handler) ==
    IF e.access_token /\ e.token_obtained_at = "fresh"
      THEN e
      ELSE LET c == [e EXCEPT !.token_calls = @ + 1,
                              !.refresh_calls = IF in_401_handler THEN @ + 1 ELSE @]
           IN IF ok
                THEN [c EXCEPT !.access_token = TRUE,
                               !.token_obtained_at = "fresh",
                               !.tasks = [i \in DOMAIN @ |->
                                            [@[i] EXCEPT !.superseded = TRUE]]]
                ELSE EmbRaise([c EXCEPT !.access_token = FALSE,
                                        !.exchange = "other",
                                        !.token_obtained_at =
                                            IF e.access_token THEN NoneVal ELSE @],
                              "RuntimeError")

\* _get_text_embeddings: all_embeddings.extend(batch_embeddings), next batch
BatchReturns(e, list) ==
    [e EXCEPT !.all_embeddings = @ \o list,
              !.batch_start = @ + batch_size,
              !.embeddings = <<>>,
              !.emb_pc = "texts"]

\* _get_batch_embeddings, a handler that retries: continue with the next
\* attempt while attempts remain, else re-raise
BatchRetryOrRaise(e, exc) ==
    IF e.emb_attempt < emb_max_retries - 1
      THEN [e EXCEPT !.emb_attempt = e.emb_attempt + 1,
                     !.single_attempt = e.emb_attempt + 1,
                     !.embeddings = <<>>]
      ELSE EmbRaise(e, exc)

\* _get_batch_embeddings: _get_single_embedding returned a vector
SingleReturns(e, v) ==
    LET got == Append(e.embeddings, v)
    IN IF Len(got) = Len(Batch(e.batch_start))
         THEN BatchReturns(e, got)
         ELSE [e EXCEPT !.embeddings = got, !.single_attempt = e.emb_attempt]

\* a request for text goes to the embeddings endpoint with the token the
\* client holds; resent records that the text had already been answered 4xx
\* (not 401) or malformed, sent_stale that the token was held past its 30
\* minutes
Sent(e, text) ==
    [e EXCEPT !.embed_requests = @ + 1,
              !.resent = @ \/ text \in e.failed_texts,
              !.sent_stale = @ \/ (e.access_token /\ e.token_obtained_at = "expired")]

\* the request for text is answered resp; exchange follows the answers:
\* "cached" while the call that started on a valid cached token has sent
\* nothing and the token has stayed valid, "first_401" once its first request got 401, "retried_ok" once a
\* request after that got a vector, "other" for every other course (a failed
\* token request included)
Replied(e, text, resp) ==
    [e EXCEPT !.only_401 = @ /\ resp = "401",
              !.failed_texts = IF resp \in {"4xx", "malformed"}
                                 THEN @ \cup {text} ELSE @,
              !.exchange = CASE @ = "cached" /\ resp = "401" -> "first_401"
                             [] @ \in {"first_401", "retried_ok"} /\ resp = "ok"
                                  -> "retried_ok"
                             [] OTHER -> "other"]

\* the POST to the embeddings endpoint was sent and answered resp
Posted(e, text, resp) == Replied(Sent(e, text), text, resp)

\* GigaEmbedding._get_batch_embeddings, handler of HTTPStatusError 401: the
\* token is dropped and fetched again, then the attempt is repeated if one
\* remains, else the error is re-raised
GigaBatch401(e, refresh_ok) ==
    LET t == GetAccessToken([e EXCEPT !.access_token = FALSE,
                                      !.token_obtained_at = NoneVal],
                            refresh_ok, TRUE)
    IN IF t.emb_pc = "raised" THEN t
       ELSE BatchRetryOrRaise(t, "HTTPStatusError")

\* GigaEmbedding._get_single_embedding, handler of HTTPStatusError 401: the
\* token is dropped and fetched again; the call recurses with attempt + 1
\* while attempt < max_retries - 1, else re-raises to _get_batch_embeddings
GigaSingle401(e, refresh_ok, batch_refresh_ok) ==
    LET t == GetAccessToken([e EXCEPT !.access_token = FALSE], refresh_ok, TRUE)
    IN IF t.emb_pc = "raised" THEN t
       ELSE IF e.single_attempt < emb_max_retries - 1
              THEN [t EXCEPT !.single_attempt = @ + 1]
              ELSE GigaBatch401(t, batch_refresh_ok)

\* _get_text_embeddings: the loop over the batches is over (or texts is
\* empty) and all_embeddings is returned
TextEmbeddingsReturn ==
    /\ emb_pc = "texts"
    /\ batch_start >= Len(texts)
    /\ SetEmbState([EmbState EXCEPT !.emb_pc = "returned",
                                    !.emb_result = all_embeddings])

\* _get_batch_embeddings with max_retries <= 0: the for loop has no
\* iteration and the function returns []
BatchNoAttempt ==
    /\ emb_pc = "texts"
    /\ batch_start < Len(texts)
    /\ emb_max_retries <= 0
    /\ SetEmbState(BatchReturns(EmbState, <<>>))

\* _get_text_embeddings calls _get_batch_embeddings for the next batch
BatchStart ==
    /\ emb_pc = "texts"
    /\ batch_start < Len(texts)
    /\ emb_max_retries > 0
    /\ emb_path = "sync"
    /\ SetEmbState([EmbState EXCEPT !.emb_pc = "single", !.emb_attempt = 0,
                                    !.single_attempt = 0, !.embeddings = <<>>])

\* GigaEmbedding._get_single_embedding for the next text of the batch, with
\* the handlers of _get_batch_embeddings that its exceptions reach
GigaSingleEmbedding ==
    /\ emb_pc = "single"
    /\ provider = "giga"
    /\ \E token_ok \in BOOLEAN, resp \in EmbeddingResponses,
          refresh_ok \in BOOLEAN, batch_refresh_ok \in BOOLEAN :
         LET t == GetAccessToken(EmbState, token_ok, FALSE)
             text == Batch(batch_start)[Len(embeddings) + 1]
             e == Posted(t, text, resp)
         IN SetEmbState(
              IF t.emb_pc = "raised" THEN t
              ELSE CASE resp = "ok" -> SingleReturns(e, Vec(text))
                     [] resp = "malformed" -> EmbRaise(e, "ValueError")
                     [] resp = "401" -> GigaSingle401(e, refresh_ok, batch_refresh_ok)
                     [] resp = "4xx" -> EmbRaise(e, "HTTPStatusError")
                     [] resp = "5xx" -> BatchRetryOrRaise(e, "HTTPStatusError")
                     [] resp = "timeout" -> BatchRetryOrRaise(e, "TimeoutException"))

\* OllamaEmbedding._get_single_embedding for the next text of the batch, with
\* the handlers of _get_batch_embeddings that its exceptions reach; a
\* response without a usable embedding makes the batch return []
OllamaSingleEmbedding ==
    /\ emb_pc = "single"
    /\ provider = "ollama"
    /\ \E resp \in EmbeddingResponses :
         LET text == Batch(batch_start)[Len(embeddings) + 1]
             e == Posted(EmbState, text, resp)
         IN SetEmbState(
              CASE resp = "ok" -> SingleReturns(e, Vec(text))
                [] resp = "malformed" -> BatchReturns(e, <<>>)
                [] resp \in {"401", "4xx"} -> EmbRaise(e, "HTTPStatusError")
                [] resp = "5xx" -> BatchRetryOrRaise(e, "HTTPStatusError")
                [] resp = "timeout" -> BatchRetryOrRaise(e, "TimeoutException"))

\* the coroutine _aget_single_embedding(text, attempt) before it has run;
\* superseded records that the token its request carries has since been
\* replaced in the client by a newer one
NewTask(att) ==
    [pc |-> "start", attempt |-> att, superseded |-> FALSE, failed |-> FALSE,
     result |-> NoneVal]

\* the coroutine of tasks[i] ends: asyncio.gather(return_exceptions=True)
\* keeps the vector it returned, or the exception it raised, as its result
TaskEnds(e, i, is_exc, res) ==
    [e EXCEPT !.emb_pc = "gather", !.emb_result = NoneVal,
              !.tasks[i] = [@ EXCEPT !.pc = "done", !.failed = is_exc,
                                     !.result = res]]

\* _aget_text_embeddings calls _aget_batch_embeddings for the next batch, and
\* its first attempt makes one coroutine per text
AsyncBatchStart ==
    /\ emb_pc = "texts"
    /\ batch_start < Len(texts)
    /\ emb_max_retries > 0
    /\ emb_path = "async"
    /\ SetEmbState([EmbState EXCEPT
            !.emb_pc = "gather", !.emb_attempt = 0, !.embeddings = <<>>,
            !.tasks = [i \in 1..Len(Batch(batch_start)) |-> NewTask(0)]])

\* _aget_single_embedding up to `await client.post`: the coroutines start in
\* the order of the batch; each takes the token (_get_access_token does not
\* await) and sends its request
AsyncSend ==
    /\ emb_pc = "gather"
    /\ \E i \in DOMAIN tasks, token_ok \in BOOLEAN :
         /\ tasks[i].pc = "start"
         /\ \A j \in 1..(i - 1) : tasks[j].pc # "start"
         /\ LET t == GetAccessToken(EmbState, token_ok, FALSE)
            IN SetEmbState(
                 IF t.emb_pc = "raised"
                   THEN TaskEnds(t, i, TRUE, "RuntimeError")
                   ELSE [Sent(t, Batch(batch_start)[i]) EXCEPT
                           !.tasks[i].pc = "posted",
                           !.tasks[i].superseded = FALSE])

\* _aget_single_embedding from the answer to its request on: a vector is
\* returned, every failure is raised; on 401 the token is dropped and fetched
\* again and, while attempt < max_retries - 1, the coroutine calls itself with
\* attempt + 1, which sends the request again with the cached new token
AsyncAnswer ==
    /\ emb_pc = "gather"
    /\ \A j \in DOMAIN tasks : tasks[j].pc # "start"
    /\ \E i \in DOMAIN tasks, resp \in EmbeddingResponses, refresh_ok \in BOOLEAN :
         /\ tasks[i].pc = "posted"
         /\ LET text == Batch(batch_start)[i]
                e == Replied(EmbState, text, resp)
                t == GetAccessToken([e EXCEPT !.access_token = FALSE,
                                              !.token_obtained_at = NoneVal],
                                    refresh_ok, TRUE)
            IN SetEmbState(
                 CASE resp = "ok" -> TaskEnds(e, i, FALSE, Vec(text))
                   [] resp = "malformed" -> TaskEnds(e, i, TRUE, "ValueError")
                   [] resp \in {"4xx", "5xx"} -> TaskEnds(e, i, TRUE, "HTTPStatusError")
                   [] resp = "timeout" -> TaskEnds(e, i, TRUE, "TimeoutException")
                   [] resp = "401" ->
                        IF t.emb_pc = "raised"
                          THEN TaskEnds(t, i, TRUE, "RuntimeError")
                        ELSE IF tasks[i].attempt < emb_max_retries - 1
                          THEN [Sent(t, text) EXCEPT
                                  !.tasks[i].attempt = @ + 1,
                                  !.tasks[i].superseded = FALSE]
                        ELSE TaskEnds(t, i, TRUE, "HTTPStatusError"))

\* _aget_batch_embeddings after asyncio.gather: the first exception among the
\* results is raised and caught by `except Exception`, which starts the next
\* attempt while one remains and re-raises otherwise; without an exception
\* the vectors are returned
AsyncGathered ==
    /\ emb_pc = "gather"
    /\ \A j \in DOMAIN tasks : tasks[j].pc = "done"
    /\ LET errs == {j \in DOMAIN tasks : tasks[j].failed}
           first == CHOOSE j \in errs : \A k \in errs : j <= k
           e == [EmbState EXCEPT !.tasks = <<>>]
       IN SetEmbState(
            IF errs = {}
              THEN BatchReturns(e, [j \in DOMAIN tasks |-> tasks[j].result])
            ELSE IF emb_attempt < emb_max_retries - 1
              THEN [EmbState EXCEPT
                      !.emb_attempt = @ + 1,
                      !.tasks = [j \in DOMAIN tasks |-> NewTask(emb_attempt + 1)]]
            ELSE EmbRaise(e, tasks[first].result))

\* time passes while the call runs: (datetime.now() - token_obtained_at)
\* reaches 1800 seconds; the call is then none of those that exchange follows
TokenAges ==
    /\ emb_pc \in {"texts", "single", "gather"}
    /\ access_token
    /\ token_obtained_at = "fresh"
    /\ SetEmbState([EmbState EXCEPT !.token_obtained_at = "expired",
                                    !.exchange = "other"])

(***************************************************************************)
(* Single-shot call: data                                                  *)
(***************************************************************************)
DefaultRetryCount == 3      \* the value taken when request.max_retry_count is falsy

\* choice.message.content by what the parser looks at: a ```json fence around
\* it, a leading "{", what json.loads makes of it, and the answer member
Contents ==
    {[fenced |-> FALSE, brace |-> FALSE, json |-> "invalid", answer |-> "absent"],
     [fenced |-> TRUE,  brace |-> FALSE, json |-> "dict",    answer |-> "text"],
     [fenced |-> FALSE, brace |-> TRUE,  json |-> "dict",    answer |-> "text"],
     [fenced |-> TRUE,  brace |-> FALSE, json |-> "invalid", answer |-> "absent"],
     [fenced |-> FALSE, brace |-> TRUE,  json |-> "invalid", answer |-> "absent"],
     [fenced |-> TRUE,  brace |-> FALSE, json |-> "list",    answer |-> "absent"],
     [fenced |-> FALSE, brace |-> TRUE,  json |-> "dict",    answer |-> "absent"],
     [fenced |-> FALSE, brace |-> TRUE,  json |-> "dict",    answer |-> "blank"],
     [fenced |-> TRUE,  brace |-> FALSE, json |-> "dict",    answer |-> "nonstr"]}

NoContent == [fenced |-> FALSE, brace |-> FALSE, json |-> "invalid", answer |-> "absent"]
NoResponse == [kind |-> "none", content |-> NoContent, error |-> NoneVal]

\* generate_response: the parse of the structured answer; a JSONDecodeError
\* leaves content_text at None
Parsed(c) == IF c.fenced THEN c.json
             ELSE IF c.brace THEN c.json
             ELSE "none"
ContentText(c) == IF Parsed(c) = "dict" /\ c.answer = "text" THEN "answer"
                  ELSE NoneVal

\* generate_response: the local max_retry_count
max_retry_count ==
    IF request.max_retry_count # 0 THEN request.max_retry_count
    ELSE DefaultRetryCount

\* generate_response: the code returned for an error of the provider
ErrorCode(e) ==
    CASE e = "AuthenticationError" -> "llm_auth_error"
      [] e = "RateLimitError" -> "rate_limit"
      [] e = "BadRequestError" -> "bad_request"
      [] e = "APIConnectionError" -> "connection_error"
      [] e = "APITimeoutError" -> "timeout"
      [] e = "OpenAIError" -> "llm_api_error"
      [] OTHER -> "internal_error"

(***************************************************************************)
(* Single-shot call: operations                                            *)
(***************************************************************************)
GenReturn(code) ==
    /\ gen_pc' = "returned"
    /\ gen_result' = code

\* generate_response up to the loop: the client is taken from the cache and
\* the parameters are prepared; without messages the call returns
GenerateStart ==
    /\ gen_pc = "generate"
    /\ IF ~request.messages
         THEN GenReturn("missing_messages")
         ELSE /\ gen_pc' = "loop"
              /\ UNCHANGED gen_result
    /\ UNCHANGED <<request, gen_attempt, gen_requests, last_response,
                   last_error, notGen>>

\* generate_response: an attempt without an answer, "continue" while
\* attempt < max_retry_count - 1
GenContinue ==
    /\ gen_attempt' = gen_attempt + 1
    /\ UNCHANGED <<gen_pc, gen_result>>

\* generate_response: one round of the for loop
GenerateAttempt ==
    /\ gen_pc = "loop"
    /\ gen_attempt < max_retry_count
    /\ gen_requests' = gen_requests + 1
    /\ \E r \in {[kind |-> "empty_choices", content |-> NoContent, error |-> NoneVal]}
                 \cup {[kind |-> "content", content |-> c, error |-> NoneVal] :
                          c \in Contents}
                 \cup {[kind |-> "error", content |-> NoContent, error |-> e] :
                          e \in NonRetryable \cup Retryable} :
         /\ last_response' = r
         /\ CASE r.kind = "empty_choices" ->
                   IF gen_attempt < max_retry_count - 1
                     THEN GenContinue /\ last_error' = NoneVal
                     ELSE GenReturn("empty_response") /\ UNCHANGED <<gen_attempt, last_error>>
              [] r.kind = "content" ->
                   IF ContentText(r.content) # NoneVal
                     THEN GenReturn("content") /\ UNCHANGED <<gen_attempt, last_error>>
                     ELSE IF gen_attempt < max_retry_count - 1
                            THEN GenContinue /\ last_error' = NoneVal
                            ELSE /\ last_error' = "ServiceError"
                                 /\ gen_pc' = "after_loop"
                                 /\ UNCHANGED <<gen_attempt, gen_result>>
              [] r.kind = "error" /\ r.error \in NonRetryable ->
                   GenReturn(ErrorCode(r.error)) /\ UNCHANGED <<gen_attempt, last_error>>
              [] OTHER ->
                   /\ last_error' = r.error
                   /\ IF gen_attempt < max_retry_count - 1
                        THEN GenContinue
                        ELSE GenReturn(ErrorCode(r.error)) /\ UNCHANGED gen_attempt
    /\ UNCHANGED <<request, notGen>>

\* generate_response after the loop, reached by the break of the last
\* attempt or when range(max_retry_count) is empty
GenerateAfterLoop ==
    /\ \/ gen_pc = "after_loop"
       \/ gen_pc = "loop" /\ gen_attempt >= max_retry_count
    /\ GenReturn(CASE last_error = "ServiceError" -> "missing_answer_field"
                   [] last_error = NoneVal -> "missing_answer_field"
                   [] OTHER -> "llm_retry_exhausted")
    /\ UNCHANGED <<request, gen_attempt, gen_requests, last_response,
                   last_error, notGen>>

(***************************************************************************)
(* Retrieval: data                                                         *)
(***************************************************************************)
\* Scores are counted in thousandths: 1000 is the score 1.0.
PointIds == {"p1", "p2", "p3"}      \* point ids, str(uuid.uuid4()) at indexing

\* Python's truth value of a point id
Truthy(result_id) == result_id # "" /\ result_id # NoneVal

IdsOf(list) == {list[i].id : i \in 1..Len(list)}

Take(list, n) == SubSeq(list, 1, Min(n, Len(list)))

\* max(0.0, min(1.0, score))
Clamp(score) == IF score < 0 THEN 0 ELSE Min(1000, score)

\* the Query API path gives the result at index idx the score 1/(idx+1)
TextScore(idx) == (100 \div (idx + 1)) * 10

\* lists of at most limit distinct points, as Qdrant returns them
PointLists(limit) ==
    UNION {{l \in [1..n -> PointIds] : \A i, j \in 1..n : l[i] = l[j] => i = j}
           : n \in 0..limit}

\* a dense search result: distinct points, best score first; [] on any error
VectorResultLists(limit) ==
    UNION {{[i \in 1..Len(ids) |->
               [id |-> ids[i], score |-> sc[i], leg |-> "vector"]]
            : sc \in {s \in [1..Len(ids) -> {200, 1000}] :
                        \A i \in 1..Len(ids) - 1 : s[i] >= s[i + 1]}}
           : ids \in PointLists(limit)}

\* a lexical search result; [] on any error
TextResultLists(limit) ==
    {[i \in 1..Len(ids) |->
        [id |-> ids[i], score |-> TextScore(i - 1), leg |-> "text"]]
     : ids \in PointLists(limit)}

\* what _get_rerank_scores gives for n documents: n scores read from the
\* reranker's answer, or RuntimeError
RerankOutcomes(n) ==
    {[kind |-> "scores", values |-> v] : v \in [1..n -> {0, 1000, 1200}]}
        \cup {[kind |-> "error", values |-> <<>>]}

(***************************************************************************)
(* Retrieval: operations                                                   *)
(***************************************************************************)
\* the loop over vector_results + text_results filling combined_results
RECURSIVE MergeInto(_, _)
MergeInto(combined_results, rest) ==
    IF rest = <<>> THEN combined_results
    ELSE LET result == Head(rest)
         IN IF Truthy(result.id) /\ result.id \notin IdsOf(combined_results)
            THEN MergeInto(Append(combined_results, result), Tail(rest))
            ELSE MergeInto(combined_results, Tail(rest))

HybridMerge_TextFirst(v, t) == MergeInto(<<>>, t \o v)

HybridMerge(v, t) == MergeInto(<<>>, v \o t)

\* (original_score * 0.3) + (normalized_rerank_score * 0.7)
Blend_NoClamp(original_score, score) ==
    (3 * original_score + 7 * score) \div 10

Blend(original_score, score) ==
    (3 * original_score + 7 * Clamp(score)) \div 10

\* list.sort(key=score, reverse=True): stable, equal scores keep their order
RECURSIVE InsertDesc(_, _)
InsertDesc(sorted, doc) ==
    IF sorted = <<>> THEN <<doc>>
    ELSE IF Head(sorted).score >= doc.score
         THEN <<Head(sorted)>> \o InsertDesc(Tail(sorted), doc)
         ELSE <<doc>> \o sorted

RECURSIVE SortDesc(_)
SortDesc(list) ==
    IF list = <<>> THEN <<>>
    ELSE InsertDesc(SortDesc(SubSeq(list, 1, Len(list) - 1)), list[Len(list)])

\* ChatCompletionsReranker.rerank(query, documents, top_k)
Rerank(documents, outcome, k) ==
    IF documents = <<>> THEN <<>>
    ELSE IF outcome.kind = "scores" /\ Len(outcome.values) = Len(documents)
    THEN Take(SortDesc([i \in 1..Len(documents) |->
                 [documents[i] EXCEPT
                     !.score = Blend(documents[i].score, outcome.values[i])]]),
              k)
    ELSE Take(documents, k)

\* retrieve: the dense search; with hybrid search off it is the whole search
VectorSearch ==
    /\ search_pc = "start"
    /\ \E v \in VectorResultLists(IF hybrid_search_enabled THEN MaxLegLen
                                  ELSE Min(MaxLegLen, top_k)) :
         /\ vector_results' = v
         /\ IF hybrid_search_enabled
            THEN /\ search_pc' = "text"
                 /\ UNCHANGED merged_results
            ELSE /\ search_pc' = "found"
                 /\ merged_results' = v
    /\ UNCHANGED <<top_k, hybrid_search_enabled, reranker, text_results,
                   scores, results, notSearch>>

\* _hybrid_search: the lexical search and the merge of the two lists
TextSearchAndMerge ==
    /\ search_pc = "text"
    /\ \E t \in TextResultLists(MaxLegLen) :
         /\ text_results' = t
         /\ merged_results' = HybridMerge(vector_results, t)
    /\ search_pc' = "found"
    /\ UNCHANGED <<top_k, hybrid_search_enabled, reranker, vector_results,
                   scores, results, notSearch>>

\* retrieve: the reranker is set and there are results
RerankAndReturn ==
    /\ search_pc = "found"
    /\ reranker /\ merged_results # <<>>
    /\ \E outcome \in RerankOutcomes(Len(merged_results)) :
         /\ scores' = outcome
         /\ results' = Take(Rerank(merged_results, outcome, top_k), top_k)
    /\ search_pc' = "done"
    /\ UNCHANGED <<top_k, hybrid_search_enabled, reranker, vector_results,
                   text_results, merged_results, notSearch>>

\* retrieve: no reranker or nothing found
ReturnUnranked ==
    /\ search_pc = "found"
    /\ ~(reranker /\ merged_results # <<>>)
    /\ results' = Take(merged_results, top_k)
    /\ search_pc' = "done"
    /\ UNCHANGED <<top_k, hybrid_search_enabled, reranker, vector_results,
                   text_results, merged_results, scores, notSearch>>


(***************************************************************************)
(* Client cache: data                                                      *)
(***************************************************************************)
KeyPrefixLen == 10
DefaultBaseUrl == "https://api.openai.com/v1"

\* api keys, character by character: two keys that differ only after the
\* tenth character, a key of exactly ten characters and a shorter one
OpenAIConfigs ==
    [api_key : {<<"s", "k", "-", "p", "r", "o", "j", "-", "0", "1", "A">>,
                <<"s", "k", "-", "p", "r", "o", "j", "-", "0", "1", "B", "B">>,
                <<"s", "k", "-", "p", "r", "o", "j", "-", "0", "1">>,
                <<"s", "k", "-", "x">>},
     base_url : {NoneVal, DefaultBaseUrl, "http://localhost:8000/v1"}]

EmptyCache == [k \in {} |-> NoneVal]

\* the embedding parameters of an add request (RAGService) or of a
\* knowledge-base retrieval (RAGTool); the other parameters of the cache key
\* (scope, max_retries, timeout) are the same in every request
EmbedRequests ==
    [owner : {"RAGService", "RAGTool"},
     embed_api_key : {NoneVal, "", "keyA", "keyB"},
     embed_url : {NoneVal, "http://emb:8080/v1"},
     embed_batch_size : {NoneVal}]

(***************************************************************************)
(* Client cache: operations                                                *)
(***************************************************************************)
\* config.api_key[:10] if len(config.api_key) > 10 else config.api_key
KeyPrefix(api_key) ==
    IF Len(api_key) > KeyPrefixLen THEN SubSeq(api_key, 1, KeyPrefixLen)
    ELSE api_key

\* ConfigCache._get_cache_key; the pair stands for f"{key_prefix}_{base_url}"
GetCacheKey_WholeKey(config) ==
    <<config.api_key,
      IF config.base_url = NoneVal THEN DefaultBaseUrl ELSE config.base_url>>

GetCacheKey(config) ==
    <<KeyPrefix(config.api_key),
      IF config.base_url = NoneVal THEN DefaultBaseUrl ELSE config.base_url>>

\* OpenAI(**client_kwargs): a new handle built from the config
NewClient(config) ==
    [handle |-> clients_created + 1,
     api_key |-> config.api_key,
     base_url |-> config.base_url]

\* ConfigCache.get_client
GetClient(config) ==
    LET cache_key == GetCacheKey(config)
        miss == cache_key \notin DOMAIN client_cache
        cache == IF miss THEN client_cache @@ (cache_key :> NewClient(config))
                 ELSE client_cache
    IN /\ Len(client_calls) < MaxGetCalls
       /\ client_cache' = cache
       /\ client_configs' = IF miss THEN client_configs @@ (cache_key :> config)
                            ELSE client_configs
       /\ clients_created' = IF miss THEN clients_created + 1
                             ELSE clients_created
       /\ client_calls' = Append(client_calls,
                                 [config |-> config,
                                  client |-> cache[cache_key],
                                  clears |-> clears])
       /\ UNCHANGED <<clears, embedding_cache, embedding_calls, notCache>>

\* ConfigCache.clear_cache
ClearCache ==
    /\ clears < MaxClears
    /\ client_cache' = EmptyCache
    /\ client_configs' = EmptyCache
    /\ clears' = clears + 1
    /\ UNCHANGED <<clients_created, client_calls, embedding_cache,
                   embedding_calls, notCache>>


\* embed_api_key if it is given and not blank, else os.getenv("GIGACHAT_AUTH_KEY")
FinalApiKey(embed_api_key) ==
    IF embed_api_key \notin {NoneVal, ""} THEN embed_api_key ELSE "envKey"

\* f"{final_api_url}:{final_model}:{final_scope}:{batch_size}:{max_retries}:{timeout}"
\* in the cache of the class that asks; scope, max_retries and timeout are
\* fixed and left out
EmbeddingCacheKey(req) ==
    <<req.owner,
      IF req.embed_url = NoneVal
        THEN "https://gigachat.devices.sberbank.ru/api/v1" ELSE req.embed_url,
      "Embeddings",
      IF req.embed_batch_size = NoneVal THEN 10 ELSE req.embed_batch_size>>

\* RAGService._get_cached_embedding and the same lines of
\* RAGTool._initialize_rag_components: a blank key raises ServiceError, else
\* the client cached under the key is returned, built on a miss with the
\* credentials of this request
GetCachedEmbedding(req) ==
    LET cache_key == EmbeddingCacheKey(req)
        miss == cache_key \notin DOMAIN embedding_cache
        cache == IF miss
                   THEN embedding_cache
                          @@ (cache_key :> [credentials |-> FinalApiKey(req.embed_api_key)])
                   ELSE embedding_cache
    IN /\ Len(embedding_calls) < MaxEmbedCalls
       /\ IF req.embed_api_key = ""
            THEN /\ embedding_calls' =
                       Append(embedding_calls,
                              [request |-> req, outcome |-> "empty_embed_api_key",
                               credentials |-> NoneVal])
                 /\ UNCHANGED embedding_cache
            ELSE /\ embedding_cache' = cache
                 /\ embedding_calls' =
                       Append(embedding_calls,
                              [request |-> req, outcome |-> "client",
                               credentials |-> cache[cache_key].credentials])
       /\ UNCHANGED <<client_cache, client_configs, clients_created, clears,
                      client_calls, notCache>>

(***************************************************************************)
(* HTTP API: data                                                          *)
(***************************************************************************)
\* Version ids are numbers given out by the platform; 0 stands for an id
\* that is None or blank, 9 for an id the platform does not know.
Endpoints == {"generate", "cache_info", "cache_clear", "rag_manage",
              "rag_health", "collections", "delete_collection", "root",
              "health", "unknown"}
\* the routes whose handler body can raise
GuardedEndpoints == {"generate", "rag_manage", "rag_health", "collections",
                     "delete_collection"}

Message(role, content) == [role |-> role, content |-> content]

\* version 1 is a saved dialog (object 1) with the transcript an earlier
\* generate call left, or without one; version 2 is a document (object 2)
Platforms ==
    {[irvs |-> <<[io_id |-> 1, file |-> "written", messages |-> m],
                 [io_id |-> 2, file |-> "none", messages |-> <<>>]>>,
      ios |-> 2,
      dialogs_folder |-> d]
     : m \in {<<Message("user", "q1"), Message("assistant", "a1")>>,
              <<Message("user", " q1 "), Message("assistant", "")>>},
       d \in BOOLEAN}
        \cup {[irvs |-> <<[io_id |-> 1, file |-> "none", messages |-> <<>>],
                          [io_id |-> 2, file |-> "none", messages |-> <<>>]>>,
               ios |-> 2,
               dialogs_folder |-> d] : d \in BOOLEAN}

AssistantRequests ==
    [current_message : {"", "  ", "hi", " hi "},
     chat_history_irv_id : {0, 1, 2, 9},
     irv_id : {0, 2},
     internet : BOOLEAN,
     knowledge_base : BOOLEAN]

DefaultRequest ==
    [current_message |-> "hi", chat_history_irv_id |-> 0, irv_id |-> 0,
     internet |-> FALSE, knowledge_base |-> FALSE]

\* where save_chat_history stops
SaveFaults == {"none", "get_irv", "create_folder", "create_ir", "no_id",
               "get_new", "no_file", "post"}

LLMResponses ==
    {[kind |-> "content", content |-> c] : c \in {"", "a2", " a2 ", "{json}"}}
        \cup {[kind |-> "error", content |-> ""]}

\* a worker that serves no generate call
IdleChat ==
    [pc |-> "idle", chat_history_irv_id |-> 0, current_message |-> "",
     content |-> "", full_messages |-> <<>>, new_irv_id |-> 0,
     outcome |-> NoneVal]

NoResponseYet ==
    [status |-> 0, error |-> NoneVal, body |-> "none", content |-> "",
     chat_history |-> 0]

(***************************************************************************)
(* HTTP API: operations                                                    *)
(***************************************************************************)
\* a test that takes only the empty string for blank
Blank_EmptyOnly(s) == s = ""

\* not s or not s.strip()
Blank(s) == s \in {"", "  "}

\* _normalize_messages_from_json: entries with a role and a content that is
\* not None, reduced to role and content
NormalizeMessages_TruthyContent(messages) ==
    SelectSeq(messages, LAMBDA m : m.role # "" /\ m.content # NoneVal
                                     /\ m.content # "")

NormalizeMessagesFromJson(messages) ==
    SelectSeq(messages, LAMBDA m : m.role # "" /\ m.content # NoneVal)

\* load_chat_history; a None list of messages is written <<>>, every reader
\* of it treats the two alike
LoadChatHistory(platform, chat_history_irv_id, fault) ==
    IF chat_history_irv_id = 0
    THEN [kind |-> "ok", chat_messages |-> <<>>, irv_exists |-> FALSE]
    ELSE IF fault = "error"
    THEN [kind |-> "raise", chat_messages |-> <<>>, irv_exists |-> FALSE]
    ELSE IF chat_history_irv_id \notin 1..Len(platform.irvs)
    THEN IF fault = "not_dict"
         THEN [kind |-> "ok", chat_messages |-> <<>>, irv_exists |-> FALSE]
         ELSE [kind |-> "raise", chat_messages |-> <<>>, irv_exists |-> FALSE]
    ELSE LET irv == platform.irvs[chat_history_irv_id]
         IN IF irv.file = "none"
            THEN [kind |-> "ok", chat_messages |-> <<>>, irv_exists |-> TRUE]
            ELSE IF irv.file = "empty"
            THEN [kind |-> "raise", chat_messages |-> <<>>, irv_exists |-> FALSE]
            ELSE [kind |-> "ok",
                  chat_messages |-> NormalizeMessagesFromJson(irv.messages),
                  irv_exists |-> TRUE]

\* generate_response: loaded history + current message + assistant answer
FullMessages_AnswerFirst(chat_messages, current_message, content) ==
    chat_messages \o <<Message("assistant", content),
                       Message("user", current_message)>>

FullMessages(chat_messages, current_message, content) ==
    chat_messages \o <<Message("user", current_message),
                       Message("assistant", content)>>

\* a save that never takes the update branch
SaveIsUpdate_Never(chat_history_irv_id, irv_exists) == FALSE

\* save_chat_history: chat_history_irv_id and str(chat_history_irv_id).strip()
\* and irv_exists
SaveIsUpdate(chat_history_irv_id, irv_exists) ==
    chat_history_irv_id # 0 /\ irv_exists

\* save_chat_history with _save_chat_history_update and _save_chat_history_new:
\* the platform afterwards and what the call gave
SaveChatHistory(platform, req, ctx, messages, fault) ==
    LET update == SaveIsUpdate(req.chat_history_irv_id,
                               ctx.chat_history_irv_exists)
        source == IF update THEN req.chat_history_irv_id ELSE req.irv_id
        need_folder == ~update /\ ~platform.dialogs_folder
        with_folder == [platform EXCEPT !.dialogs_folder = @ \/ need_folder]
        new_irv_id == Len(platform.irvs) + 1
        io_id == IF update THEN platform.irvs[source].io_id
                 ELSE platform.ios + 1
        created == [with_folder EXCEPT
                       !.irvs = Append(@, [io_id |-> io_id, file |-> "empty",
                                           messages |-> <<>>]),
                       !.ios = IF update THEN @ ELSE @ + 1]
        written == [created EXCEPT
                       !.irvs[new_irv_id].file = "written",
                       !.irvs[new_irv_id].messages = messages]
        Raised(p) == [siu |-> p, kind |-> "raised", irv_id |-> 0]
        Nothing(p) == [siu |-> p, kind |-> "none", irv_id |-> 0]
    IN IF source = 0 THEN Nothing(platform)
       ELSE IF fault = "get_irv" THEN Raised(platform)
       ELSE IF fault = "create_folder" /\ need_folder THEN Raised(platform)
       ELSE IF fault = "create_ir" THEN Raised(with_folder)
       ELSE IF fault = "no_id" THEN Nothing(created)
       ELSE IF fault = "get_new" THEN Raised(created)
       ELSE IF fault = "no_file" THEN Nothing(created)
       ELSE IF fault = "post" THEN Raised(created)
       ELSE [siu |-> written, kind |-> "saved", irv_id |-> new_irv_id]

\* generate_response: which LLMService call serves the request
Dispatch_AgentNeedsBoth(internet, knowledge_base) ==
    IF ~(internet /\ knowledge_base) THEN "simple" ELSE "agent"

Dispatch(internet, knowledge_base) ==
    IF ~internet /\ ~knowledge_base THEN "simple" ELSE "agent"

\* JSONResponse(status_code=200, content=error_response_body(...))
ErrorResponse(status, code) ==
    [status |-> status, error |-> code, body |-> "error", content |-> "",
     chat_history |-> 0]

\* generate_response after the LLM call: the body is the parsed object when
\* the content is JSON text, else {"content": content}; the descriptor of the
\* saved transcript is added only when save_chat_history returned one
SuccessResponse_SaveErrors(content, saved) ==
    IF saved.kind = "saved"
    THEN [status |-> 200, error |-> NoneVal,
          body |-> IF content = "{json}" THEN "object" ELSE "content",
          content |-> content, chat_history |-> saved.irv_id]
    ELSE ErrorResponse(200, "chat_history_error")

SuccessResponse(content, saved) ==
    [status |-> 200, error |-> NoneVal,
     body |-> IF content = "{json}" THEN "object" ELSE "content",
     content |-> content,
     chat_history |-> IF saved.kind = "saved" THEN saved.irv_id ELSE 0]

\* the errors_to_200 middleware
ErrorsTo200_PassThrough(response) == response

ErrorsTo200(response) ==
    IF response.status < 400 THEN response
    ELSE ErrorResponse(200, IF response.error = NoneVal THEN "error"
                            ELSE response.error)

\* the response leaves through the middleware
Respond(response, cause) ==
    /\ inner_response' = response
    /\ http_response' = ErrorsTo200(response)
    /\ failure' = cause
    /\ route_pc' = "done"

\* FastAPI before any handler runs: no such route (404 from the router), or
\* a body that fails validation (validation_exception_handler answers 400)
RejectRequest ==
    /\ route_pc = "start"
    /\ endpoint = "unknown" \/ ~valid_body
    /\ IF endpoint = "unknown"
       THEN Respond(ErrorResponse(404, NoneVal), "not_found")
       ELSE Respond(ErrorResponse(400, "validation_error"), "validation")
    /\ UNCHANGED <<siu, endpoint, valid_body, assistant_request, context,
                   llm_call, llm_response, full_messages, chat_history_result,
                   chats, notRoute>>

\* every route but generate: the handler answers 200, and the guarded ones
\* turn a ServiceError or any other exception into a 200 with an error field
OtherEndpoint ==
    /\ route_pc = "start"
    /\ endpoint \notin {"generate", "unknown"}
    /\ valid_body
    /\ \E outcome \in {"ok", "ServiceError", "Exception"} :
         /\ outcome # "ok" => endpoint \in GuardedEndpoints
         /\ IF outcome = "ok"
            THEN Respond([NoResponseYet EXCEPT !.status = 200,
                                               !.body = "content"], NoneVal)
            ELSE Respond(ErrorResponse(200, IF outcome = "ServiceError"
                                            THEN "service_error"
                                            ELSE "internal_error"), outcome)
    /\ UNCHANGED <<siu, endpoint, valid_body, assistant_request, context,
                   llm_call, llm_response, full_messages, chat_history_result,
                   chats, notRoute>>

\* generate_response up to the LLM call: the platform client, the user and
\* document info, the chat history, the current_message test, the dispatch
GenerateLoad ==
    /\ route_pc = "start"
    /\ endpoint = "generate"
    /\ valid_body
    /\ \E fault \in {"none", "user", "error", "not_dict"} :
         LET loaded == LoadChatHistory(siu, assistant_request.chat_history_irv_id,
                                       fault)
         IN IF fault = "user"
            THEN \* get_current_user_info raised
                 /\ Respond(ErrorResponse(200, "user_service_error"),
                            "ServiceError")
                 /\ UNCHANGED <<context, llm_call>>
            ELSE IF loaded.kind = "raise"
            THEN /\ Respond(ErrorResponse(200, "siu_error"), "ServiceError")
                 /\ UNCHANGED <<context, llm_call>>
            ELSE /\ context' = [chat_messages |-> loaded.chat_messages,
                                chat_history_irv_exists |-> loaded.irv_exists]
                 /\ IF Blank(assistant_request.current_message)
                    THEN /\ Respond(ErrorResponse(200, "missing_current_message"),
                                    "missing_current_message")
                         /\ UNCHANGED llm_call
                    ELSE /\ llm_call' =
                              LET kind == Dispatch(assistant_request.internet,
                                                   assistant_request.knowledge_base)
                              IN [kind |-> kind,
                                  toolkit |-> IF kind = "agent"
                                              THEN ToolsFor(assistant_request.internet,
                                                            assistant_request.knowledge_base)
                                              ELSE {}]
                         /\ route_pc' = "llm"
                         /\ UNCHANGED <<failure, inner_response, http_response>>
    /\ UNCHANGED <<siu, endpoint, valid_body, assistant_request, llm_response,
                   full_messages, chat_history_result, chats, notRoute>>

\* a route that takes no answer of the LLM call for an error
ResponseHasError_Never(response) == FALSE

\* generate_response: "error" in response
ResponseHasError(response) == response.kind = "error"

\* generate_response from the answer of the LLM call on: an error is passed
\* on; else the transcript is saved, a failed save is only logged, and the
\* content is returned
GenerateRespond ==
    /\ route_pc = "llm"
    /\ \E response \in LLMResponses, fault \in SaveFaults :
         /\ llm_response' = response
         /\ IF ResponseHasError(response)
            THEN /\ Respond(ErrorResponse(200, "llm_error"), "llm_error")
                 /\ UNCHANGED <<siu, full_messages, chat_history_result>>
            ELSE LET messages == FullMessages(context.chat_messages,
                                              assistant_request.current_message,
                                              response.content)
                     saved == SaveChatHistory(siu, assistant_request, context,
                                              messages, fault)
                 IN /\ full_messages' = messages
                    /\ siu' = saved.siu
                    /\ chat_history_result' = [kind |-> saved.kind,
                                               irv_id |-> saved.irv_id,
                                               fault |-> fault]
                    /\ Respond(SuccessResponse(response.content, saved), NoneVal)
    /\ UNCHANGED <<endpoint, valid_body, assistant_request, context, llm_call,
                   chats, notRoute>>


\* generate_response of worker p up to the save: the history of the prior
\* version, the LLM call, and the transcript to save; an error of the LLM
\* call ends the request
ChatGenerate(p) ==
    /\ chats[p].pc = "start"
    /\ \E response \in LLMResponses :
         LET loaded == LoadChatHistory(siu, chats[p].chat_history_irv_id, "none")
         IN chats' = [chats EXCEPT ![p] =
               IF ResponseHasError(response)
                 THEN [@ EXCEPT !.pc = "done", !.outcome = "llm_error"]
                 ELSE [@ EXCEPT
                         !.pc = "save",
                         !.content = response.content,
                         !.full_messages =
                             FullMessages(loaded.chat_messages,
                                          chats[p].current_message,
                                          response.content)]]
    /\ UNCHANGED <<siu, endpoint, valid_body, assistant_request, route_pc,
                   context, llm_call, llm_response, full_messages,
                   chat_history_result, failure, inner_response, http_response,
                   notRoute>>

\* _save_chat_history_update of worker p up to create_ir: the platform makes
\* a new version of the prior version's object and answers with its id
ChatCreateVersion(p) ==
    /\ chats[p].pc = "save"
    /\ \E fault \in {"none", "get_irv", "create_ir", "no_id"} :
         LET prior == siu.irvs[chats[p].chat_history_irv_id]
             created == [siu EXCEPT
                           !.irvs = Append(@, [io_id |-> prior.io_id,
                                               file |-> "empty",
                                               messages |-> <<>>])]
         IN IF fault \in {"get_irv", "create_ir"}
              THEN /\ chats' = [chats EXCEPT ![p].pc = "done",
                                             ![p].outcome = "raised"]
                   /\ UNCHANGED siu
            ELSE IF fault = "no_id"
              THEN /\ chats' = [chats EXCEPT ![p].pc = "done",
                                             ![p].outcome = "none"]
                   /\ siu' = created
            ELSE /\ chats' = [chats EXCEPT ![p].pc = "created",
                                           ![p].new_irv_id = Len(created.irvs)]
                 /\ siu' = created
    /\ UNCHANGED <<endpoint, valid_body, assistant_request, route_pc,
                   context, llm_call, llm_response, full_messages,
                   chat_history_result, failure, inner_response, http_response,
                   notRoute>>

\* a save that writes into the file of the version it continues
ChatFileVersion_Prior(chat) == chat.chat_history_irv_id

\* file_obj: chat_history.json among the files of get_irv(new_irv_id)
ChatFileVersion(chat) == chat.new_irv_id

\* _save_chat_history_update of worker p from get_irv(new_irv_id) on: the
\* transcript is posted as the content of the new version's file
ChatPostContent(p) ==
    /\ chats[p].pc = "created"
    /\ \E fault \in {"none", "get_new", "no_file", "post"} :
         IF fault = "none"
           THEN /\ siu' = [siu EXCEPT
                             !.irvs[ChatFileVersion(chats[p])].file = "written",
                             !.irvs[ChatFileVersion(chats[p])].messages =
                                 chats[p].full_messages]
                /\ chats' = [chats EXCEPT ![p].pc = "done",
                                          ![p].outcome = "saved"]
           ELSE /\ chats' = [chats EXCEPT
                               ![p].pc = "done",
                               ![p].outcome = IF fault = "no_file" THEN "none"
                                              ELSE "raised"]
                /\ UNCHANGED siu
    /\ UNCHANGED <<endpoint, valid_body, assistant_request, route_pc,
                   context, llm_call, llm_response, full_messages,
                   chat_history_result, failure, inner_response, http_response,
                   notRoute>>

(***************************************************************************)
(* Point payloads: data                                                    *)
(***************************************************************************)
\* A dict is a function from its keys to strings.
\* {**a, **b}: the keys of both, b's value where both have the key
DictMerge(a, b) == b @@ a

\* {k: v for k, v in d.items() if v is not None}
DropNone(d) == [k \in {x \in DOMAIN d : d[x] # NoneVal} |-> d[k]]

FileRequests ==
    [irv_id : Docs, irvf_id : {"f1", "f2"}, file_name : {"a.txt", "b.docx"}]

\* what get_irv may give: not a dict, or a dict with or without a name and
\* a description
IrvInfos ==
    {[is_dict |-> d, name |-> n, description |-> s] :
        d \in BOOLEAN, n \in {NoneVal, "Report"}, s \in {NoneVal, "Yearly"}}

\* f"{irv_id}_{irvf_id}", the document_id the chunker is given
ChunkerDocumentId(irv_id, irvf_id) ==
    CASE irv_id = "X" /\ irvf_id = "f1" -> "X_f1"
      [] irv_id = "X" /\ irvf_id = "f2" -> "X_f2"
      [] irv_id = "Y" /\ irvf_id = "f1" -> "Y_f1"
      [] OTHER -> "Y_f2"

\* chunks as the chunker returns them: a text, maybe blank, and the level of
\* its section, maybe None
ChunkLists ==
    UNION {[1..n -> [text : {"", "  ", "t"}, hierarchy_level : {NoneVal, "1"}]]
           : n \in 0..MaxChunks}

(***************************************************************************)
(* Point payloads: operations                                              *)
(***************************************************************************)
\* RAGService._extract_irv_metadata
ExtractIrvMetadata(info, irv_id) ==
    IF info.is_dict
    THEN DropNone([k \in {"irv_id", "irv_name", "irv_description"} |->
                     CASE k = "irv_id" -> irv_id
                       [] k = "irv_name" -> info.name
                       [] OTHER -> info.description])
    ELSE [k \in {} |-> ""]

\* _process_file: doc_metadata, the platform's metadata spread last
DocMetadata_NoIrvId(req, irv_metadata) ==
    DictMerge([k \in {"irvf_id", "file_name"} |->
                 IF k = "irvf_id" THEN req.irvf_id ELSE req.file_name],
              [k \in DOMAIN irv_metadata \ {"irv_id"} |-> irv_metadata[k]])

DocMetadata(req, irv_metadata) ==
    DictMerge([k \in {"irv_id", "irvf_id", "file_name"} |->
                 CASE k = "irv_id" -> req.irv_id
                   [] k = "irvf_id" -> req.irvf_id
                   [] OTHER -> req.file_name],
              irv_metadata)

\* the chunker's metadata of one chunk, None values removed
ChunkMetadata(chunk, document_id) ==
    DropNone([k \in {"document_id", "chunk_index", "chunk_type",
                     "hierarchy_level"} |->
                CASE k = "document_id" -> document_id
                  [] k = "chunk_index" -> "0"
                  [] k = "chunk_type" -> "text"
                  [] OTHER -> chunk.hierarchy_level])

\* _create_nodes_from_chunks: a node for every chunk whose text is not blank
CreateNodesFromChunks(chunks, doc_metadata, document_id) ==
    LET kept == SelectSeq(chunks, LAMBDA c : c.text \notin {"", "  "})
    IN [i \in 1..Len(kept) |->
          [text |-> kept[i].text,
           metadata |->
               DictMerge(DictMerge(doc_metadata,
                                   ChunkMetadata(kept[i], document_id)),
                         [k \in {"chunk_index", "chunk_type"} |->
                            IF k = "chunk_index" THEN "0" ELSE "text"])]]

\* PointStruct(payload={"text": node.text, **node.metadata})
PointPayload(node) ==
    DictMerge([k \in {"text"} |-> node.text], node.metadata)

\* _process_file: the file was read and chunked, the nodes are made
CreateNodes ==
    /\ index_pc = "chunked"
    /\ nodes' = CreateNodesFromChunks(
                    chunker_result,
                    DocMetadata(file_request,
                                ExtractIrvMetadata(irv_info, file_request.irv_id)),
                    ChunkerDocumentId(file_request.irv_id, file_request.irvf_id))
    /\ index_pc' = "nodes"
    /\ UNCHANGED <<file_request, irv_info, chunker_result, all_points,
                   node_batch_size, node_start, upserted, file_result,
                   notPayload>>

\* a handler of a failed portion that writes what was collected so far
OnEmbeddingError_WritesCollected(collected) == collected

\* _process_file when _get_text_embeddings raises or gives a list of another
\* length: ServiceError is raised out of the loop, caught by the function's
\* own handler and turned into an error result; the points collected so far
\* are dropped. The points that are written:
OnEmbeddingError(collected) == <<>>

\* _process_file, one round of the loop over the portions of batch_size
\* nodes: the texts are embedded and the points of the portion are collected
EmbedPortion ==
    /\ index_pc = "nodes"
    /\ node_start < Len(nodes)
    /\ \E outcome \in {"ok", "raise", "wrong_length"} :
         IF outcome = "ok"
         THEN LET last == Min(node_start + node_batch_size, Len(nodes))
              IN /\ all_points' = all_points \o
                        [k \in 1..(last - node_start) |->
                            PointPayload(nodes[node_start + k])]
                 /\ node_start' = node_start + node_batch_size
                 /\ UNCHANGED <<index_pc, upserted, file_result>>
         ELSE /\ upserted' = OnEmbeddingError(all_points)
              /\ file_result' = "error"
              /\ index_pc' = "done"
              /\ UNCHANGED <<all_points, node_start>>
    /\ UNCHANGED <<file_request, irv_info, chunker_result, nodes,
                   node_batch_size, notPayload>>

\* _process_file after the loop: all the points are written by one upsert;
\* an upsert that raises gives an error result; without text nodes nothing
\* is written, and the result is no_chunks, or an error when the chunker
\* made only nodes of the table of contents or of tables
UpsertPoints ==
    /\ index_pc = "nodes"
    /\ node_start >= Len(nodes)
    /\ \E ok \in BOOLEAN :
         CASE all_points = <<>> ->
                /\ file_result' = IF ok THEN "no_chunks" ELSE "error"
                /\ UNCHANGED upserted
           [] ok ->
                /\ upserted' = all_points
                /\ file_result' = "success"
           [] OTHER ->
                /\ file_result' = "error"
                /\ UNCHANGED upserted
    /\ index_pc' = "done"
    /\ UNCHANGED <<file_request, irv_info, chunker_result, nodes, all_points,
                   node_batch_size, node_start, notPayload>>


(***************************************************************************)
(* Claims about the agent loop                                             *)
(***************************************************************************)
\* the execution is over: execute has returned to agent_call
ExecuteReturned ==
    /\ agent_pc \in {"finished", "returned"}
    /\ agent_response # "agent_creation_error"

\* C1: whatever the LLM and the tools answer, one call of execute increments
\* the iteration counter at most max_iterations times and then returns with
\* the agent in a terminal state
C1_ExecuteTerminates ==
    /\ [](iteration <= max_iterations)
    /\ <>(agent_pc = "returned")
    /\ [](ExecuteReturned => state \in FINISH_STATES)

\* an execution in which final_answer was never selected ran into the cap
C1_Witness ==
    /\ agent_pc = "returned"
    /\ max_iterations > 1
    /\ iteration = max_iterations
    /\ last_tool \notin {NoneVal, "finalanswertool"}
    /\ state = "failed"

\* C2: the state becomes completed only in an action phase that invoked
\* final_answer, execution_result is then the tool's answer; once completed,
\* execution_result is not written again, no iteration starts and no LLM
\* call is made
C2_CompletedByFinalAnswer ==
    [][ /\ (state # "completed" /\ state' = "completed")
             => /\ agent_pc = "action"
                /\ action_tool = "finalanswertool"
                /\ execution_result' = "answer"
        /\ state = "completed"
             => /\ execution_result' = execution_result
                /\ iteration' = iteration
                /\ llm_calls' = llm_calls ]_vars

\* an execution that completed after an earlier iteration with another tool
C2_Witness ==
    /\ agent_pc = "returned"
    /\ state = "completed"
    /\ agent_response = "content"
    /\ execution_result = "answer"
    /\ iteration > 1

\* C9 (as claimed): when the execution ends at the iteration cap, the state
\* is failed and execution_result holds the error or the cap message
C9_CapLeavesResult ==
    (agent_pc = "returned" /\ raised = "Max iterations reached")
        => (state = "failed" /\ execution_result # NoneVal)

\* C23 (as claimed): when the action-selection response has no tool call, or
\* its parsed arguments are not a tool instance, the phase is not attempted
\* again in that iteration and the execution ends in state failed
C23_NoToolCallNotRetried ==
    [][(/\ agent_pc = "select"
        /\ llm_calls' = llm_calls + 1
        /\ phase_error' \in {"no_tool_call", "not_base_tool"})
            => (state' = "failed" /\ agent_pc' = "finished")]_vars

\* C10 (as claimed): an action-selection response without a tool call makes
\* the generate call return the code agent_execution_error
C10_NoToolCallCode ==
    (agent_pc = "returned" /\ raised = "no_tool_call")
        => agent_response = "agent_execution_error"

\* C22 (as claimed): the execution fails for the iteration cap only when the
\* incremented iteration counter exceeds max_iterations; an iteration
\* numbered max_iterations or less is not stopped by the cap
C22_CapOnlyWhenExceeded ==
    raised = "Max iterations reached" => iteration > max_iterations

\* C24: in the reasoning phase and in the action-selection phase an
\* authentication, rate-limit or malformed-request error of the provider
\* ends the phase with the call that got it: the execution is failed at once,
\* nothing is appended to the conversation, and afterwards no LLM call is
\* made, no tool runs and no iteration starts
C24_NonRetryableEndsExecution ==
    [][ /\ (/\ raised = NoneVal
            /\ raised' \in {"AuthenticationError", "RateLimitError",
                             "BadRequestError"})
              => /\ agent_pc \in {"reasoning", "select"}
                 /\ llm_calls' = llm_calls + 1
                 /\ state' = "failed"
                 /\ agent_pc' = "finished"
                 /\ conversation' = conversation
                 /\ last_tool' = last_tool
        /\ raised \in {"AuthenticationError", "RateLimitError",
                       "BadRequestError"}
              => /\ state = "failed" /\ state' = "failed"
                 /\ llm_calls' = llm_calls
                 /\ iteration' = iteration
                 /\ conversation' = conversation
                 /\ last_tool' = last_tool
        /\ phase_error' \notin {"AuthenticationError", "RateLimitError",
                                "BadRequestError"} ]_vars

\* the second iteration's action selection got a rate-limit error on its
\* second attempt, after both phases of the first iteration succeeded
C24_Witness ==
    /\ agent_pc = "returned"
    /\ raised = "RateLimitError"
    /\ iteration = 2
    /\ Len(conversation) = 6
    /\ phase_calls = 2
    /\ state = "failed"
    /\ agent_response = "agent_failed"

\* C25: in each iteration the reasoning phase and the action-selection phase
\* each make at most max_retries LLM calls; a call that ends in a transport
\* error, a timeout, a generic provider error or an unexpected exception is
\* followed by another attempt of the same phase while fewer than
\* max_retries calls were made, and after the max_retries-th failed call the
\* execution is failed with that error
C25_BoundedRetries ==
    [][ /\ phase_calls' <= max_retries
        /\ (/\ agent_pc \in {"reasoning", "select"}
            /\ agent_pc' # "action"
            /\ llm_calls' = llm_calls + 1
            /\ phase_error' \in {"APIConnectionError", "APITimeoutError",
                                  "OpenAIError", "Exception"}
            /\ raised' \notin {"AuthenticationError", "RateLimitError",
                                "BadRequestError"})
              => IF phase_calls' < max_retries
                 THEN /\ agent_pc' = agent_pc
                      /\ attempt' = attempt + 1
                      /\ state' = state
                      /\ raised' = NoneVal
                 ELSE /\ state' = "failed"
                      /\ agent_pc' = "finished"
                      /\ raised' = phase_error' ]_vars

\* the action selection of the second iteration gave up after three
\* timeouts, with three retries allowed
C25_Witness ==
    /\ agent_pc = "returned"
    /\ max_retries = 3
    /\ phase_calls = 3
    /\ raised = "APITimeoutError"
    /\ iteration = 2
    /\ Len(conversation) = 6
    /\ llm_calls = 6
    /\ state = "failed"

\* every assistant tool call of conv is directly followed by a tool result
\* with its id, and no other tool result has that id
Paired(conv) ==
    /\ Len(conv) % 2 = 0
    /\ \A i \in 1..Len(conv) :
          IF i % 2 = 1
          THEN /\ conv[i].role = "assistant"
               /\ conv[i + 1].role = "tool"
               /\ conv[i + 1].id = conv[i].id
               /\ \A j \in 1..Len(conv) :
                     (conv[j].role = "tool" /\ conv[j].id = conv[i].id)
                         => j = i + 1
          ELSE conv[i].role = "tool"

\* C26: whenever a phase is about to call the LLM, also after a failed
\* attempt of the phase, every assistant tool call in the conversation is
\* directly followed by exactly one tool result with the same tool_call_id
C26_ToolCallsAnswered ==
    agent_pc \in {"reasoning", "select"} => Paired(conversation)

\* the action selection of the second iteration is about to be retried
C26_Witness ==
    /\ agent_pc = "select"
    /\ attempt = 1
    /\ phase_calls = 1
    /\ phase_error \in {"APIConnectionError", "no_tool_call"}
    /\ iteration = 2
    /\ Len(conversation) = 6
    /\ conversation[5].role = "assistant"

\* the four entries an iteration that ran to its end has added
IterationEntries(it) ==
    <<[role |-> "assistant", id |-> <<it, "reasoning">>],
      [role |-> "tool", id |-> <<it, "reasoning">>],
      [role |-> "assistant", id |-> <<it, "action">>],
      [role |-> "tool", id |-> <<it, "action">>]>>

\* C27: an iteration that runs to its end extends the conversation by the
\* reasoning tool call, the reasoning result, the action tool call and the
\* action result, in this order and with nothing in between; while the
\* iteration runs the conversation holds the part of these four that the
\* finished phases have written
C27_IterationAppendsInOrder ==
    LET done == IF agent_pc = "execute" THEN iteration ELSE iteration - 1
        current == CASE agent_pc = "select" -> 2
                     [] agent_pc = "action" -> 3
                     [] OTHER -> 0
    IN agent_pc \in {"execute", "reasoning", "select", "action"}
         => /\ Len(conversation) = 4 * done + current
            /\ \A i \in 1..done :
                  SubSeq(conversation, 4 * i - 3, 4 * i) = IterationEntries(i)
            /\ SubSeq(conversation, 4 * done + 1, 4 * done + current)
                  = SubSeq(IterationEntries(iteration), 1, current)

\* the second iteration has run to its end
C27_Witness ==
    /\ agent_pc = "execute"
    /\ iteration = 2
    /\ state = "researching"
    /\ Len(conversation) = 8
    /\ conversation[7].id = <<2, "action">>
    /\ last_tool = "ragtool"

(***************************************************************************)
(* Claims about add and remove                                             *)
(***************************************************************************)
\* the two requests in hist were served one right after the other for the
\* same document
InARow(a1, a2) ==
    /\ Len(hist) = 2
    /\ hist[1].action = a1 /\ hist[2].action = a2
    /\ hist[1].irv_id = hist[2].irv_id
    /\ hist[2].op = hist[1].op + 1

\* C3 (as claimed): two successful adds in a row for the same document with
\* unchanged files leave as many points for it as the first add left
C3_AddTwiceSameCount ==
    (/\ InARow("add", "add")
     /\ hist[1].status = "success" /\ hist[2].status = "success"
     /\ hist[1].files = hist[2].files)
        => hist[2].count_after = hist[1].count_after

\* C4 (as claimed): after a successful add the points of the document are
\* exactly the chunks of its current supported files, none of them written
\* by an earlier add
C4_AddLeavesExactlyCurrent ==
    \A i \in 1..Len(hist) :
        (hist[i].action = "add" /\ hist[i].status = "success")
            => /\ hist[i].count_after = SumChunks(hist[i].files)
               /\ hist[i].stale_after = 0

\* C5 (as claimed): after an add and then a successful remove of the same
\* document the store holds no point of it
C5_AddRemoveLeavesNone ==
    (InARow("add", "remove") /\ hist[2].status = "success")
        => hist[2].count_after = 0

\* the chunks of the files of an add that did not fail
SavedOf(h) ==
    LET F[i \in 0..Len(h.files)] ==
          IF i = 0 THEN 0
          ELSE IF h.files[i].irvf_id \in h.errors THEN F[i - 1]
               ELSE F[i - 1] + h.files[i].chunks
    IN F[Len(h.files)]

\* C14: when at least one file fails during an add, the add returns the code
\* rag_processing_error and its errors name every failed file, and the points
\* of the files of the same add that were indexed successfully are in the
\* store when it returns (no rollback).
C14_FailedAddKeepsIndexedFiles ==
    \A i \in 1..Len(hist) :
        (hist[i].action = "add" /\ hist[i].errors # {})
            => /\ hist[i].status = "rag_processing_error"
               /\ hist[i].errors \subseteq
                      {hist[i].files[k].irvf_id : k \in 1..Len(hist[i].files)}
               /\ hist[i].chunks_saved = SavedOf(hist[i])
               /\ hist[i].count_after - hist[i].stale_after = SavedOf(hist[i])

\* an add of two files, one failed, the other one indexed and still stored
C14_Witness ==
    \E i \in 1..Len(hist) :
        /\ hist[i].action = "add"
        /\ hist[i].status = "rag_processing_error"
        /\ Cardinality(hist[i].errors) = 1
        /\ Len(hist[i].files) = 2
        /\ hist[i].count_after - hist[i].stale_after > 0

\* C28 (as claimed): a failure of the scroll or of a delete batch while an add
\* removes the document's old points does not end the add: the add goes on
\* to its files
C28_DeleteFailureStillInserts ==
    [][\A p \in Procs :
          (rq[p].action = "add" /\ rq[p].pc \in {"scroll", "delete"})
              => rq'[p].pc \in {"scroll", "delete", "files"}]_vars

C6_RefreshAtMostOnce ==
    (emb_pc = "raised" /\ only_401 /\ embed_requests > 0)
        => refresh_calls <= 1

\* C7 (as claimed): an embedding call on M texts that returns gives exactly
\* M vectors, the i-th for the i-th text
C7_AllOrError ==
    emb_pc = "returned"
        => emb_result = [i \in 1..Len(texts) |-> Vec(texts[i])]

\* C31 (as claimed): a call for one text that starts on a valid cached token,
\* whose first embeddings request is answered 401 and whose token requests and
\* later embeddings requests all succeed, returns the vector after exactly two
\* embeddings requests and exactly one token request, for every max_retries of
\* at least 1
C31_OneRefreshOneRetry ==
    (/\ provider = "giga"
     /\ Len(texts) = 1
     /\ emb_max_retries >= 1
     /\ emb_pc \in {"returned", "raised"}
     /\ exchange \in {"first_401", "retried_ok"})
        => (/\ emb_pc = "returned"
            /\ emb_result = <<Vec(texts[1])>>
            /\ embed_requests = 2
            /\ token_calls = 1)

\* C32 (as claimed): on the synchronous and on the asynchronous path, no
\* request is sent again for a text whose request was answered 4xx (other than
\* 401) or with a malformed body, the call then fails, and a batch is given at
\* most max_retries attempts
C32_FatalAnswersNotRetried ==
    /\ ~resent
    /\ (emb_pc \in {"returned", "raised"} /\ failed_texts # {}) => emb_pc = "raised"
    /\ emb_max_retries > 0 => emb_attempt < emb_max_retries

\* C33: no embeddings request carries a cached token aged 30 minutes or more;
\* a step that sends a request from a state whose cached token is that old
\* also asks the token endpoint for a new one
C33_TokenSentOnlyWhileValid ==
    /\ [](~sent_stale)
    /\ [][(embed_requests' > embed_requests
            /\ access_token /\ token_obtained_at = "expired")
              => token_calls' > token_calls]_vars

\* the token ran out twice during a call, which sent a request after each
C33_Witness ==
    /\ provider = "giga"
    /\ emb_pc = "returned"
    /\ Len(texts) = 2
    /\ embed_requests = 2
    /\ token_calls = 2
    /\ refresh_calls = 0

\* C34 (as claimed): among the concurrent requests of one asynchronous batch,
\* a request answered 401 does not make its coroutine drop and refresh the
\* cached token when another coroutine has replaced the token since that
\* request was sent
C34_NoRefreshOverFreshToken ==
    [][(emb_path = "async" /\ refresh_calls' > refresh_calls)
         => \A i \in DOMAIN tasks :
              (/\ tasks[i].pc = "posted"
               /\ i \in DOMAIN tasks'
               /\ (tasks'[i].pc = "done" \/ tasks'[i].attempt # tasks[i].attempt))
                  => ~tasks[i].superseded]_vars

(***************************************************************************)
(* Claims about the single-shot call                                       *)
(***************************************************************************)
\* the response has a non-empty answer field
HasAnswerField(r) ==
    r.kind = "content" /\ r.content.json = "dict" /\ r.content.answer = "text"
LacksAnswerField(r) == r.kind = "content" /\ ~HasAnswerField(r)
AllowedRequests == IF request.max_retry_count > 0 THEN request.max_retry_count ELSE 0

Merged == hybrid_search_enabled /\ search_pc \in {"found", "done"}

\* the entries of both legs in the order the merge reads them
BothLegs == vector_results \o text_results

FirstSeen(result_id) ==
    BothLegs[CHOOSE i \in 1..Len(BothLegs) :
                /\ BothLegs[i].id = result_id
                /\ \A j \in 1..(i - 1) : BothLegs[j].id # result_id]

\* C11: the merged hybrid result contains every point id returned by either
\* leg exactly once, and the entry kept for an id is the first one seen (the
\* dense leg's entry when both legs returned the id).
C11_MergeUnionFirstSeen ==
    Merged =>
        /\ IdsOf(merged_results) = IdsOf(vector_results) \cup IdsOf(text_results)
        /\ \A i, j \in 1..Len(merged_results) :
              merged_results[i].id = merged_results[j].id => i = j
        /\ \A i \in 1..Len(merged_results) :
              merged_results[i] = FirstSeen(merged_results[i].id)

\* an id returned by both legs with different scores, kept once
C11_Witness ==
    /\ Merged
    /\ \E i \in 1..Len(vector_results), j \in 1..Len(text_results) :
          /\ vector_results[i].id = text_results[j].id
          /\ vector_results[i].score # text_results[j].score
          /\ \E k \in 1..Len(merged_results) :
                merged_results[k] = vector_results[i]


Reranked == search_pc = "done" /\ reranker /\ merged_results # <<>>

\* discovery position of a candidate
PosOf(result_id) ==
    CHOOSE i \in 1..Len(merged_results) : merged_results[i].id = result_id

\* 0.3 x original score + 0.7 x rerank score, the rerank score held in [0, 1]
Expected(i) ==
    LET raw == scores.values[i]
        held == IF raw > 1000 THEN 1000 ELSE IF raw < 0 THEN 0 ELSE raw
    IN (3 * merged_results[i].score + 7 * held) \div 10

\* candidate i ranks before candidate j
Before(i, j) ==
    \/ Expected(i) > Expected(j)
    \/ Expected(i) = Expected(j) /\ i < j

RankedByBlend ==
    /\ scores.kind = "scores"
    /\ Len(results) = Min(top_k, Len(merged_results))
    /\ \A k \in 1..Len(results) :
          /\ results[k].id \in IdsOf(merged_results)
          /\ results[k].score = Expected(PosOf(results[k].id))
    /\ \A k \in 1..(Len(results) - 1) :
          Before(PosOf(results[k].id), PosOf(results[k + 1].id))
    /\ \A i \in 1..Len(merged_results) :
          merged_results[i].id \notin IdsOf(results) =>
              \A k \in 1..Len(results) : Before(PosOf(results[k].id), i)

\* C12 as stated: with a reranker enabled the returned list is always the
\* candidates scored 0.3 x original + 0.7 x rerank (rerank held in [0, 1]),
\* sorted by that score in descending order, equal scores in discovery
\* order, truncated to top_k.
C12_AlwaysRankedByBlend == Reranked => RankedByBlend

\* C12: with a reranker enabled the returned list is the candidates scored
\* 0.3 x original + 0.7 x rerank (rerank held in [0, 1]), sorted descending,
\* equal scores in discovery order, truncated to top_k, whenever the reranker
\* gave one score per candidate; when the reranker call failed the returned
\* list is the candidates in discovery order with their original scores,
\* truncated to top_k.
C12_RankedByBlendOrFallback ==
    Reranked =>
        /\ scores.kind = "scores" => RankedByBlend
        /\ scores.kind = "error" => results = Take(merged_results, top_k)

\* a truncated list with a tie, a rerank score above 1 and a changed order
C12_Witness ==
    /\ Reranked
    /\ scores.kind = "scores"
    /\ Len(merged_results) > top_k
    /\ \E i \in 1..Len(merged_results) : scores.values[i] > 1000
    /\ \E k \in 1..(Len(results) - 1) : results[k].score = results[k + 1].score
    /\ \E k \in 1..Len(results) : results[k].id # merged_results[k].id

\* what an entry carries for the caller: its id and its score (text and
\* metadata are those of the point and the same in both legs)
EntriesOf(list) ==
    {[id |-> list[i].id, score |-> list[i].score] : i \in 1..Len(list)}

\* C35 (as claimed): the merge of the lexical list followed by the dense list
\* has the same entries as the merge the retriever made of the dense list
\* followed by the lexical list
C35_MergeCommutes ==
    Merged => EntriesOf(merged_results)
                = EntriesOf(HybridMerge(text_results, vector_results))

(***************************************************************************)
(* Claims about the client cache                                           *)
(***************************************************************************)
SameKeyPrefixAndUrl(c1, c2) ==
    /\ \A i \in 1..KeyPrefixLen :
          /\ i <= Len(c1.api_key) <=> i <= Len(c2.api_key)
          /\ i <= Len(c1.api_key) => c1.api_key[i] = c2.api_key[i]
    /\ c1.base_url = c2.base_url

\* C13: two get_client calls whose configurations share the first 10
\* characters of the api key and the base_url, with no clear_cache between
\* them, return the same client handle; and the client a call returned stays
\* in the cache under its key until clear_cache is called.
C13_SameClientUntilClear ==
    /\ \A i, j \in 1..Len(client_calls) :
          /\ SameKeyPrefixAndUrl(client_calls[i].config, client_calls[j].config)
          /\ client_calls[i].clears = client_calls[j].clears
          => client_calls[i].client.handle = client_calls[j].client.handle
    /\ \A i \in 1..Len(client_calls) :
          client_calls[i].clears = clears =>
              \E k \in DOMAIN client_cache :
                  client_cache[k] = client_calls[i].client

\* two calls with different api keys that share the first 10 characters
\* returned one client, and a later call after clear_cache built a new one
C13_Witness ==
    \E i, j, k \in 1..Len(client_calls) :
        /\ i < j /\ j < k
        /\ client_calls[i].config.api_key # client_calls[j].config.api_key
        /\ SameKeyPrefixAndUrl(client_calls[i].config, client_calls[j].config)
        /\ client_calls[i].clears = client_calls[j].clears
        /\ client_calls[i].client.handle = client_calls[j].client.handle
        /\ client_calls[k].config = client_calls[i].config
        /\ client_calls[k].clears > client_calls[i].clears
        /\ client_calls[k].client.handle # client_calls[i].client.handle


\* C36 (as claimed): the client handle get_client returns for a request was
\* built with that request's api key and for that request's base_url (no
\* base_url meaning the default one)
C36_ClientBuiltWithRequestKey ==
    \A i \in 1..Len(client_calls) :
        /\ client_calls[i].client.api_key = client_calls[i].config.api_key
        /\ (IF client_calls[i].client.base_url = NoneVal THEN DefaultBaseUrl
             ELSE client_calls[i].client.base_url)
              = (IF client_calls[i].config.base_url = NoneVal THEN DefaultBaseUrl
                 ELSE client_calls[i].config.base_url)

\* C37 (as claimed): the embedding client handed to a request that gives an
\* embed_api_key was built with that key as its credentials
C37_EmbeddingClientUsesRequestKey ==
    \A i \in 1..Len(embedding_calls) :
        embedding_calls[i].request.embed_api_key \in {"keyA", "keyB"}
            => embedding_calls[i].credentials = embedding_calls[i].request.embed_api_key

(***************************************************************************)
(* Claims about the HTTP API                                               *)
(***************************************************************************)
Answered ==
    /\ route_pc = "done"
    /\ endpoint = "generate"
    /\ llm_response.kind = "content"

SavedTranscript == siu.irvs[chat_history_result.irv_id].messages

\* the messages of the version the request names, none when the platform
\* has no such version or the version has no transcript
PriorMessages ==
    LET id == assistant_request.chat_history_irv_id
    IN IF id \in 1..Len(siu.irvs) THEN siu.irvs[id].messages ELSE <<>>

\* C15: for every successful generate call whose transcript save succeeds and
\* names a prior version, the saved transcript is the prior version's
\* messages in their original order, followed by the current user message
\* and then the assistant answer.
C15_TranscriptExtendsPrior ==
    (/\ Answered
     /\ chat_history_result.kind = "saved"
     /\ assistant_request.chat_history_irv_id # 0)
        => SavedTranscript =
               PriorMessages
                   \o <<[role |-> "user",
                         content |-> assistant_request.current_message],
                        [role |-> "assistant",
                         content |-> llm_response.content]>>

\* a dialog with an earlier exchange, one of its messages empty, continued
C15_Witness ==
    /\ Answered
    /\ chat_history_result.kind = "saved"
    /\ assistant_request.chat_history_irv_id = 1
    /\ Len(PriorMessages) = 2
    /\ PriorMessages[2].content = ""
    /\ Len(SavedTranscript) = 4
    /\ siu.irvs[chat_history_result.irv_id].io_id = 1

\* whitespace normalization of a message content
WsNorm(content) ==
    CASE content = " hi " -> "hi"
      [] content = " q1 " -> "q1"
      [] content = " a2 " -> "a2"
      [] content = "  " -> ""
      [] OTHER -> content

\* C16: saving a transcript and then loading it from the produced version
\* returns the same messages in the same order, with content equal up to
\* whitespace normalization.
C16_SaveThenLoad ==
    (route_pc = "done" /\ chat_history_result.kind = "saved")
        => LET loaded == LoadChatHistory(siu, chat_history_result.irv_id, "none")
           IN /\ loaded.kind = "ok"
              /\ loaded.irv_exists
              /\ Len(loaded.chat_messages) = Len(full_messages)
              /\ \A i \in 1..Len(full_messages) :
                    /\ loaded.chat_messages[i].role = full_messages[i].role
                    /\ WsNorm(loaded.chat_messages[i].content)
                          = WsNorm(full_messages[i].content)

\* a saved transcript with an empty answer and padded contents
C16_Witness ==
    /\ route_pc = "done"
    /\ chat_history_result.kind = "saved"
    /\ Len(full_messages) = 4
    /\ full_messages[1].content = " q1 "
    /\ full_messages[2].content = ""
    /\ full_messages[4].content = ""
    /\ LoadChatHistory(siu, chat_history_result.irv_id, "none").chat_messages
          = full_messages

\* C17: if saving the transcript fails (it raises, or returns no descriptor)
\* after an answer was produced, the response still returns the answer, with
\* no error field and no chat_history descriptor.
C17_FailedSaveKeepsAnswer ==
    (Answered /\ chat_history_result.kind \in {"raised", "none"})
        => /\ http_response.status = 200
           /\ http_response.error = NoneVal
           /\ http_response.body \in {"content", "object"}
           /\ http_response.content = llm_response.content
           /\ http_response.chat_history = 0

\* the save raised after the new version was created
C17_Witness ==
    /\ Answered
    /\ chat_history_result.kind = "raised"
    /\ Len(siu.irvs) = 3
    /\ http_response.content = "a2"
    /\ http_response.error = NoneVal
    /\ http_response.chat_history = 0

\* C19: with internet = false and knowledge_base = false a direct LLM call is
\* made and never an agent; otherwise the agent is called, with a toolkit of
\* exactly the reasoning tool and the final-answer tool, plus the web-search
\* tool iff internet is set, plus the knowledge-base tool iff knowledge_base
\* is set.
C19_DispatchAndToolkit ==
    llm_call.kind # "none" =>
        IF ~assistant_request.internet /\ ~assistant_request.knowledge_base
        THEN llm_call.kind = "simple" /\ llm_call.toolkit = {}
        ELSE /\ llm_call.kind = "agent"
             /\ {"reasoningtool", "finalanswertool"} \subseteq llm_call.toolkit
             /\ llm_call.toolkit \subseteq ToolNames
             /\ "websearchtool" \in llm_call.toolkit
                   <=> assistant_request.internet
             /\ "ragtool" \in llm_call.toolkit
                   <=> assistant_request.knowledge_base

\* an agent call for the knowledge base alone
C19_Witness ==
    /\ llm_call.kind = "agent"
    /\ ~assistant_request.internet
    /\ assistant_request.knowledge_base
    /\ llm_call.toolkit = {"reasoningtool", "finalanswertool", "ragtool"}

BlankAnswered ==
    /\ route_pc = "done"
    /\ endpoint = "generate"
    /\ valid_body
    /\ assistant_request.current_message \in {"", "  "}

\* C21 as stated: every generate request whose current_message is empty or
\* only whitespace is answered with the code missing_current_message.
C21_BlankAlwaysMissingCurrentMessage ==
    BlankAnswered => http_response.error = "missing_current_message"

\* C21: a generate request whose current_message is empty or only whitespace
\* never reaches an LLM call and is answered with an error: the code
\* missing_current_message when the user info and the chat history were
\* loaded, the code of the platform failure when loading them raised.
C21_BlankNoLLMCall ==
    BlankAnswered =>
        /\ llm_call.kind = "none"
        /\ llm_response.kind = "none"
        /\ http_response.status = 200
        /\ IF failure = "ServiceError"
           THEN http_response.error \in {"user_service_error", "siu_error"}
           ELSE http_response.error = "missing_current_message"

\* a whitespace-only message sent with the id of a saved dialog
C21_Witness ==
    /\ BlankAnswered
    /\ assistant_request.current_message = "  "
    /\ assistant_request.chat_history_irv_id = 1
    /\ assistant_request.internet
    /\ Len(context.chat_messages) = 2
    /\ http_response.error = "missing_current_message"
    /\ llm_call.kind = "none"


\* the platform of a request starts with the versions 1 and 2 of the objects
\* 1 and 2; a save adds version 3
PriorGivenAndExists == assistant_request.chat_history_irv_id \in {1, 2}

NewVersionOfPrior ==
    /\ Len(siu.irvs) = 3
    /\ siu.irvs[3].io_id = siu.irvs[assistant_request.chat_history_irv_id].io_id
    /\ siu.ios = 2

NewObjectInFolder ==
    /\ Len(siu.irvs) = 3
    /\ siu.irvs[3].io_id = 3
    /\ siu.ios = 3
    /\ siu.dialogs_folder

SaveRan == Answered /\ chat_history_result.fault = "none"

\* C38 (as claimed): a save that meets no platform failure makes a new version
\* of the prior object when a prior id is given and that object exists, and a
\* new object in the dialogs folder in every other case
C38_UpdateOrNewInEveryCase ==
    SaveRan => IF PriorGivenAndExists THEN NewVersionOfPrior
               ELSE NewObjectInFolder

\* C38 (amended): a save that meets no platform failure makes a new version of
\* the prior object (same io_id, no new object) when a prior id is given and
\* that object exists; otherwise it makes a new object in the dialogs folder,
\* which exists afterwards, when the request names a current document, and
\* writes nothing when it names none
C38_UpdateOrNewUnderDocument ==
    SaveRan => IF PriorGivenAndExists THEN NewVersionOfPrior
               ELSE IF assistant_request.irv_id # 0 THEN NewObjectInFolder
               ELSE /\ Len(siu.irvs) = 2
                    /\ siu.ios = 2
                    /\ chat_history_result.kind = "none"

\* a dialog continued as a new version of its object, on a platform that has
\* no dialogs folder
C38_Witness ==
    /\ SaveRan
    /\ assistant_request.chat_history_irv_id = 1
    /\ assistant_request.irv_id = 2
    /\ NewVersionOfPrior
    /\ ~siu.dialogs_folder

\* C40: when the LLM or agent call of a generate request returns an error,
\* the platform holds what it held before the request: the two versions of
\* the two objects, no dialogs folder that was not there, and
\* save_chat_history was not called
C40_ErrorWritesNothing ==
    [][(route_pc = "llm" /\ llm_response'.kind = "error")
          => (/\ siu' = siu
              /\ chat_history_result'.kind = "not_called"
              /\ full_messages' = <<>>
              /\ http_response'.error = "llm_error"
              /\ http_response'.chat_history = 0)]_vars

\* a request that continues a dialog and names a document got an error
\* from the LLM call
C40_Witness ==
    /\ route_pc = "done"
    /\ endpoint = "generate"
    /\ llm_response.kind = "error"
    /\ assistant_request.chat_history_irv_id = 1
    /\ assistant_request.irv_id = 2
    /\ ~siu.dialogs_folder
    /\ Len(siu.irvs) = 2

\* C39: of two concurrent generate calls that continue the same prior
\* version, every one whose save went through has a version of its own, of
\* the prior version's object, whose file holds the prior messages followed
\* by that call's user message and answer; the prior version keeps its file
C39_OwnVersionOwnTranscript ==
    /\ \A p \in Procs :
          chats[p].outcome = "saved" =>
              LET v == siu.irvs[chats[p].new_irv_id]
                  prior == siu.irvs[chats[p].chat_history_irv_id]
              IN /\ chats[p].new_irv_id > 2
                 /\ v.io_id = prior.io_id
                 /\ v.file = "written"
                 /\ v.messages =
                       prior.messages
                           \o <<[role |-> "user",
                                 content |-> chats[p].current_message],
                                [role |-> "assistant",
                                 content |-> chats[p].content]>>
    /\ \A p, q \in Procs :
          (p # q /\ chats[p].pc \in {"created", "done"} /\ chats[p].new_irv_id # 0)
              => chats[p].new_irv_id # chats[q].new_irv_id
    /\ siu.irvs[1].file = "written"
    /\ Len(siu.irvs[1].messages) = 2
    /\ siu.irvs[2].file = "none"

\* both calls continued the saved dialog and saved: two new versions of its
\* object, with different transcripts
C39_Witness ==
    /\ \A p \in Procs : chats[p].outcome = "saved"
    /\ Len(siu.irvs) = 4
    /\ siu.irvs[3].messages # siu.irvs[4].messages
    /\ siu.irvs[3].io_id = 1
    /\ siu.irvs[4].io_id = 1

(***************************************************************************)
(* Claims about point payloads                                             *)
(***************************************************************************)
\* C18: every point written to the vector store by indexing carries in its
\* payload a document identifier that is present and non-empty: the key
\* irv_id, holding the id of the document the add request names.
C18_PayloadHasDocumentId ==
    \A points \in {all_points, upserted} :
        \A i \in 1..Len(points) :
            /\ "irv_id" \in DOMAIN points[i]
            /\ points[i]["irv_id"] # ""
            /\ points[i]["irv_id"] # NoneVal
            /\ points[i]["irv_id"] = file_request.irv_id

\* two points of a document whose platform metadata is not a dict, the
\* chunker having added its own document_id
C18_Witness ==
    /\ index_pc = "done"
    /\ Len(upserted) = 2
    /\ ~irv_info.is_dict
    /\ "document_id" \in DOMAIN upserted[1]
    /\ upserted[1]["irv_id"] = "X"


\* C29: the points of a file are written by one upsert, made only after
\* every portion of the file was embedded: the collection holds none of the
\* file's points or the points of all its text nodes, never those of some
\* portions only, and a file that failed has left none
C29_SingleUpsertAllOrNone ==
    [][ /\ \/ upserted' = <<>>
           \/ upserted' = [i \in 1..Len(nodes') |->
                             [k \in {"text"} |-> nodes'[i].text]
                                 @@ nodes'[i].metadata]
        /\ upserted' # upserted
              => /\ upserted = <<>>
                 /\ node_start >= Len(nodes)
                 /\ Len(all_points) = Len(nodes)
                 /\ file_result' = "success"
        /\ file_result' = "error" => upserted' = <<>> ]_vars

\* a file of two nodes embedded one by one: the second portion failed after
\* the points of the first were collected, nothing was written
C29_Witness ==
    /\ index_pc = "done"
    /\ file_result = "error"
    /\ Len(nodes) = 2
    /\ node_batch_size = 1
    /\ Len(all_points) = 1
    /\ upserted = <<>>


(***************************************************************************)
(* Initial states and specifications                                       *)
(***************************************************************************)
InitSearchIdle ==
    /\ top_k = 1
    /\ hybrid_search_enabled = TRUE
    /\ reranker = FALSE
    /\ search_pc = "idle"
    /\ vector_results = <<>>
    /\ text_results = <<>>
    /\ merged_results = <<>>
    /\ scores = [kind |-> "none", values |-> <<>>]
    /\ results = <<>>

InitCacheIdle ==
    /\ client_cache = EmptyCache
    /\ client_configs = EmptyCache
    /\ clients_created = 0
    /\ clears = 0
    /\ client_calls = <<>>
    /\ embedding_cache = EmptyCache
    /\ embedding_calls = <<>>

InitRouteIdle ==
    /\ siu = [irvs |-> <<>>, ios |-> 0, dialogs_folder |-> FALSE]
    /\ endpoint = "health"
    /\ valid_body = TRUE
    /\ assistant_request = DefaultRequest
    /\ route_pc = "idle"
    /\ context = [chat_messages |-> <<>>, chat_history_irv_exists |-> FALSE]
    /\ llm_call = [kind |-> "none", toolkit |-> {}]
    /\ llm_response = [kind |-> "none", content |-> ""]
    /\ full_messages = <<>>
    /\ chat_history_result = [kind |-> "not_called", irv_id |-> 0,
                              fault |-> NoneVal]
    /\ failure = NoneVal
    /\ inner_response = NoResponseYet
    /\ http_response = NoResponseYet
    /\ chats = [p \in Procs |-> IdleChat]

InitPayloadIdle ==
    /\ file_request = [irv_id |-> "X", irvf_id |-> "f1", file_name |-> "a.txt"]
    /\ irv_info = [is_dict |-> FALSE, name |-> NoneVal, description |-> NoneVal]
    /\ chunker_result = <<>>
    /\ index_pc = "idle"
    /\ nodes = <<>>
    /\ all_points = <<>>
    /\ node_batch_size = 1
    /\ node_start = 0
    /\ upserted = <<>>
    /\ file_result = NoneVal

InitRagIdle ==
    /\ store = [k \in Keys |-> 0]
    /\ docfiles = [d \in Docs |-> <<>>]
    /\ rq = [p \in Procs |-> IdleRq]
    /\ nreq = 0
    /\ hist = <<>>
    /\ nchanges = 0
    /\ active = {}

InitEmbIdle ==
    /\ provider = "ollama"
    /\ emb_max_retries = 0
    /\ batch_size = 1
    /\ texts = <<>>
    /\ access_token = FALSE
    /\ token_obtained_at = NoneVal
    /\ emb_pc = "idle"
    /\ batch_start = 0
    /\ emb_attempt = 0
    /\ single_attempt = 0
    /\ embeddings = <<>>
    /\ all_embeddings = <<>>
    /\ emb_result = NoneVal
    /\ token_calls = 0
    /\ refresh_calls = 0
    /\ embed_requests = 0
    /\ only_401 = TRUE
    /\ exchange = "other"
    /\ emb_path = "sync"
    /\ tasks = <<>>
    /\ failed_texts = {}
    /\ resent = FALSE
    /\ sent_stale = FALSE

InitGenIdle ==
    /\ request = [max_retry_count |-> DefaultRetryCount, messages |-> FALSE]
    /\ gen_pc = "idle"
    /\ gen_attempt = 0
    /\ gen_requests = 0
    /\ last_response = NoResponse
    /\ last_error = NoneVal
    /\ gen_result = NoneVal

InitAgentIdle ==
    /\ max_iterations = 1
    /\ max_retries = 0
    /\ toolkit = {}
    /\ search_api_key = FALSE
    /\ state = "researching"
    /\ iteration = 0
    /\ execution_result = NoneVal
    /\ conversation = <<>>
    /\ agent_pc = "idle"
    /\ attempt = 0
    /\ action_tool = NoneVal
    /\ llm_calls = 0
    /\ phase_calls = 0
    /\ phase_error = NoneVal
    /\ last_tool = NoneVal
    /\ raised = NoneVal
    /\ agent_response = NoneVal

InitAgent ==
    /\ max_iterations \in 1..MaxIterations
    /\ max_retries \in 0..MaxRetries
    /\ \E internet \in BOOLEAN, knowledge_base \in BOOLEAN :
          /\ internet \/ knowledge_base
          /\ toolkit = ToolsFor(internet, knowledge_base)
    /\ search_api_key \in BOOLEAN
    /\ state = "researching"
    /\ iteration = 0
    /\ execution_result = NoneVal
    /\ conversation = <<>>
    /\ agent_pc = "agent_call"
    /\ attempt = 0
    /\ action_tool = NoneVal
    /\ llm_calls = 0
    /\ phase_calls = 0
    /\ phase_error = NoneVal
    /\ last_tool = NoneVal
    /\ raised = NoneVal
    /\ agent_response = NoneVal
    /\ InitRagIdle
    /\ InitEmbIdle
    /\ InitGenIdle
    /\ InitSearchIdle
    /\ InitCacheIdle
    /\ InitRouteIdle
    /\ InitPayloadIdle

NextAgent ==
    \/ AgentCallCreate
    \/ ExecuteLoop
    \/ ReasoningNoAttempt
    \/ ReasoningPhase
    \/ SelectActionCap
    \/ SelectActionPhase
    \/ ActionPhase
    \/ AgentCallReturn

SpecAgent == InitAgent /\ [][NextAgent]_vars

\* the event loop runs the coroutine of agent_call until it returns
FairSpecAgent == SpecAgent /\ WF_vars(NextAgent)

InitRag ==
    /\ store = [k \in Keys |-> 0]
    /\ docfiles \in InitialFiles
    /\ rq = [p \in Procs |-> IdleRq]
    /\ nreq = 0
    /\ hist = <<>>
    /\ nchanges = 0
    /\ active = {1}
    /\ InitAgentIdle
    /\ InitEmbIdle
    /\ InitGenIdle
    /\ InitSearchIdle
    /\ InitCacheIdle
    /\ InitRouteIdle
    /\ InitPayloadIdle

NextRag ==
    \/ \E p \in Procs, d \in Docs : AddFilesStart(p, d)
    \/ \E p \in Procs, d \in Docs : RemoveFilesStart(p, d)
    \/ \E p \in Procs : ScrollPoints(p)
    \/ \E p \in Procs : DeleteBatch(p)
    \/ \E p \in Procs : ProcessFile(p)
    \/ ChangeFiles("X")

SpecRag == InitRag /\ [][NextRag]_vars

\* the service behind two workers that share the collection; the documents
\* hold at most one file
InitRagWorkers ==
    /\ store = [k \in Keys |-> 0]
    /\ docfiles \in {f \in InitialFiles : Len(f["X"]) <= 1}
    /\ rq = [p \in Procs |-> IdleRq]
    /\ nreq = 0
    /\ hist = <<>>
    /\ nchanges = 0
    /\ active = Procs
    /\ InitAgentIdle
    /\ InitEmbIdle
    /\ InitGenIdle
    /\ InitSearchIdle
    /\ InitCacheIdle
    /\ InitRouteIdle
    /\ InitPayloadIdle

SpecRagWorkers == InitRagWorkers /\ [][NextRag]_vars

\* a client after construction (GigaEmbedding.__init__ has fetched a token,
\* some time ago) and one call of _get_text_embeddings
InitEmb ==
    /\ provider \in Providers
    /\ emb_max_retries \in 0..MaxEmbRetries
    /\ batch_size \in 1..MaxBatchSize
    /\ texts \in TextLists
    /\ access_token = (provider = "giga")
    /\ token_obtained_at \in (IF provider = "giga" THEN {"fresh", "expired"}
                              ELSE {NoneVal})
    /\ emb_pc = "texts"
    /\ batch_start = 0
    /\ emb_attempt = 0
    /\ single_attempt = 0
    /\ embeddings = <<>>
    /\ all_embeddings = <<>>
    /\ emb_result = NoneVal
    /\ token_calls = 0
    /\ refresh_calls = 0
    /\ embed_requests = 0
    /\ only_401 = TRUE
    /\ exchange = (IF access_token /\ token_obtained_at = "fresh"
                    THEN "cached" ELSE "other")
    /\ emb_path = "sync"
    /\ tasks = <<>>
    /\ failed_texts = {}
    /\ resent = FALSE
    /\ sent_stale = FALSE
    /\ InitAgentIdle
    /\ InitRagIdle
    /\ InitGenIdle
    /\ InitSearchIdle
    /\ InitCacheIdle
    /\ InitRouteIdle
    /\ InitPayloadIdle

NextEmb ==
    \/ TextEmbeddingsReturn
    \/ BatchNoAttempt
    \/ BatchStart
    \/ GigaSingleEmbedding
    \/ OllamaSingleEmbedding

SpecEmb == InitEmb /\ [][NextEmb]_vars

\* a GigaEmbedding client after construction and one call of
\* _get_text_embeddings or of _aget_text_embeddings
InitEmbPaths ==
    /\ provider = "giga"
    /\ emb_max_retries \in 0..MaxCallRetries
    /\ batch_size \in 1..MaxBatchSize
    /\ texts \in {tl \in TextLists : Len(tl) <= MaxCallTexts}
    /\ access_token = TRUE
    /\ token_obtained_at \in {"fresh", "expired"}
    /\ emb_pc = "texts"
    /\ batch_start = 0
    /\ emb_attempt = 0
    /\ single_attempt = 0
    /\ embeddings = <<>>
    /\ all_embeddings = <<>>
    /\ emb_result = NoneVal
    /\ token_calls = 0
    /\ refresh_calls = 0
    /\ embed_requests = 0
    /\ only_401 = TRUE
    /\ exchange = (IF token_obtained_at = "fresh" THEN "cached" ELSE "other")
    /\ emb_path \in {"sync", "async"}
    /\ tasks = <<>>
    /\ failed_texts = {}
    /\ resent = FALSE
    /\ sent_stale = FALSE
    /\ InitAgentIdle
    /\ InitRagIdle
    /\ InitGenIdle
    /\ InitSearchIdle
    /\ InitCacheIdle
    /\ InitRouteIdle
    /\ InitPayloadIdle

NextEmbPaths ==
    \/ TextEmbeddingsReturn
    \/ BatchNoAttempt
    \/ BatchStart
    \/ GigaSingleEmbedding
    \/ AsyncBatchStart
    \/ AsyncSend
    \/ AsyncAnswer
    \/ AsyncGathered

SpecEmbPaths == InitEmbPaths /\ [][NextEmbPaths]_vars

\* a GigaEmbedding client after construction and one call of
\* _get_text_embeddings during which the cached token may reach its 30 minutes
InitEmbAging ==
    /\ InitEmbPaths
    /\ emb_path = "sync"

NextEmbAging ==
    \/ TextEmbeddingsReturn
    \/ BatchNoAttempt
    \/ BatchStart
    \/ GigaSingleEmbedding
    \/ TokenAges

SpecEmbAging == InitEmbAging /\ [][NextEmbAging]_vars

\* one call of generate_response; max_retry_count is any integer of the
\* request body
InitGen ==
    /\ request \in [max_retry_count : -1..MaxRetryCount, messages : BOOLEAN]
    /\ gen_pc = "generate"
    /\ gen_attempt = 0
    /\ gen_requests = 0
    /\ last_response = NoResponse
    /\ last_error = NoneVal
    /\ gen_result = NoneVal
    /\ InitAgentIdle
    /\ InitRagIdle
    /\ InitEmbIdle
    /\ InitSearchIdle
    /\ InitCacheIdle
    /\ InitRouteIdle
    /\ InitPayloadIdle

NextGen ==
    \/ GenerateStart
    \/ GenerateAttempt
    \/ GenerateAfterLoop

SpecGen == InitGen /\ [][NextGen]_vars

\* one retrieve call of a DocumentRetriever
InitSearch ==
    /\ top_k \in 1..MaxTopK
    /\ hybrid_search_enabled \in BOOLEAN
    /\ reranker \in BOOLEAN
    /\ search_pc = "start"
    /\ vector_results = <<>>
    /\ text_results = <<>>
    /\ merged_results = <<>>
    /\ scores = [kind |-> "none", values |-> <<>>]
    /\ results = <<>>
    /\ InitAgentIdle
    /\ InitRagIdle
    /\ InitEmbIdle
    /\ InitGenIdle
    /\ InitCacheIdle
    /\ InitRouteIdle
    /\ InitPayloadIdle

NextSearch ==
    \/ VectorSearch
    \/ TextSearchAndMerge
    \/ RerankAndReturn
    \/ ReturnUnranked

SpecSearch == InitSearch /\ [][NextSearch]_vars


\* a new process: ConfigCache() at import
InitCache ==
    /\ client_cache = EmptyCache
    /\ client_configs = EmptyCache
    /\ clients_created = 0
    /\ clears = 0
    /\ client_calls = <<>>
    /\ embedding_cache = EmptyCache
    /\ embedding_calls = <<>>
    /\ InitAgentIdle
    /\ InitRagIdle
    /\ InitEmbIdle
    /\ InitGenIdle
    /\ InitSearchIdle
    /\ InitRouteIdle
    /\ InitPayloadIdle

NextCache ==
    \/ \E config \in OpenAIConfigs : GetClient(config)
    \/ ClearCache

SpecCache == InitCache /\ [][NextCache]_vars

\* the requests of one process that ask for an embedding client
NextEmbCache == \E req \in EmbedRequests : GetCachedEmbedding(req)

SpecEmbCache == InitCache /\ [][NextEmbCache]_vars


\* one HTTP request to the API
InitRoute ==
    /\ siu \in Platforms
    /\ endpoint \in Endpoints
    /\ valid_body \in BOOLEAN
    /\ assistant_request \in AssistantRequests
    /\ endpoint # "generate" => assistant_request = DefaultRequest
    /\ route_pc = "start"
    /\ context = [chat_messages |-> <<>>, chat_history_irv_exists |-> FALSE]
    /\ llm_call = [kind |-> "none", toolkit |-> {}]
    /\ llm_response = [kind |-> "none", content |-> ""]
    /\ full_messages = <<>>
    /\ chat_history_result = [kind |-> "not_called", irv_id |-> 0,
                              fault |-> NoneVal]
    /\ failure = NoneVal
    /\ inner_response = NoResponseYet
    /\ http_response = NoResponseYet
    /\ chats = [p \in Procs |-> IdleChat]
    /\ InitAgentIdle
    /\ InitRagIdle
    /\ InitEmbIdle
    /\ InitGenIdle
    /\ InitSearchIdle
    /\ InitCacheIdle
    /\ InitPayloadIdle

NextRoute ==
    \/ RejectRequest
    \/ OtherEndpoint
    \/ GenerateLoad
    \/ GenerateRespond

SpecRoute == InitRoute /\ [][NextRoute]_vars

\* two workers, each serving a generate call that continues the same prior
\* version: a saved dialog (version 1) or a version without a transcript
\* (version 2)
InitChats ==
    /\ siu \in {pl \in Platforms : pl.irvs[1].file = "written"}
    /\ endpoint = "health"
    /\ valid_body = TRUE
    /\ assistant_request = DefaultRequest
    /\ route_pc = "idle"
    /\ context = [chat_messages |-> <<>>, chat_history_irv_exists |-> FALSE]
    /\ llm_call = [kind |-> "none", toolkit |-> {}]
    /\ llm_response = [kind |-> "none", content |-> ""]
    /\ full_messages = <<>>
    /\ chat_history_result = [kind |-> "not_called", irv_id |-> 0,
                              fault |-> NoneVal]
    /\ failure = NoneVal
    /\ inner_response = NoResponseYet
    /\ http_response = NoResponseYet
    /\ \E prior \in {1, 2} :
         chats \in [Procs -> {[IdleChat EXCEPT !.pc = "start",
                                               !.chat_history_irv_id = prior,
                                               !.current_message = m]
                              : m \in {"hi", " hi "}}]
    /\ InitAgentIdle
    /\ InitRagIdle
    /\ InitEmbIdle
    /\ InitGenIdle
    /\ InitSearchIdle
    /\ InitCacheIdle
    /\ InitPayloadIdle

NextChats ==
    \/ \E p \in Procs : ChatGenerate(p)
    \/ \E p \in Procs : ChatCreateVersion(p)
    \/ \E p \in Procs : ChatPostContent(p)

SpecChats == InitChats /\ [][NextChats]_vars


\* one file of an add request, read and chunked
InitPayload ==
    /\ file_request \in FileRequests
    /\ irv_info \in IrvInfos
    /\ chunker_result \in ChunkLists
    /\ index_pc = "chunked"
    /\ nodes = <<>>
    /\ all_points = <<>>
    /\ node_batch_size \in 1..MaxBatchSize
    /\ node_start = 0
    /\ upserted = <<>>
    /\ file_result = NoneVal
    /\ InitAgentIdle
    /\ InitRagIdle
    /\ InitEmbIdle
    /\ InitGenIdle
    /\ InitSearchIdle
    /\ InitCacheIdle
    /\ InitRouteIdle

NextPayload ==
    \/ CreateNodes
    \/ EmbedPortion
    \/ UpsertPoints

SpecPayload == InitPayload /\ [][NextPayload]_vars


====
